---- MODULE Spec2Model ----
(***************************************************************************)
(* A model of the mjx_warp dynamics pipeline (mujoco/mjx/_src): forward    *)
(* kinematics, composite rigid body inertia and mass matrix, mass matrix   *)
(* factorization and solve, and the semi-implicit Euler integrator.        *)
(*                                                                         *)
(* Numbers.  A float is modelled by an exact rational <<n, d>> in lowest   *)
(* terms with d > 0; <<0, 0>> is a non-finite value (NaN or an infinity).  *)
(* + - * / are exact.  The library functions whose results are irrational  *)
(* (wp.sqrt/length/normalize, wp.sin, wp.cos, wp.exp) are evaluated in     *)
(* fixed point with PREC units per 1, which stands for their rounding.     *)
(* Indices are those of the source (0-based): an array is a function on    *)
(* 0..n-1.  Vectors, quaternions and matrices are tuples, component i of   *)
(* the source being component i+1 here.                                    *)
(***************************************************************************)
EXTENDS Integers, Sequences, FiniteSets, TLC

\* ---------------------------------------------------------------- bounds
\* number of parallel worlds of a batch (d.nworld)
NWorld == 2
\* fixed-point units per 1 of the library functions
PREC == 100
\* calls of pipeline stages per behaviour
MaxSteps == 3

Worlds == 0 .. (NWorld - 1)

\* ------------------------------------------------------------- rationals
Abs(i) == IF i < 0 THEN -i ELSE i

RECURSIVE GCD(_, _)
GCD(a, b) == IF b = 0 THEN a ELSE GCD(b, a % b)

NaN == <<0, 0>>
IsNaN(a) == a[2] = 0
Finite(a) == a[2] # 0

Rat(n, dd) ==
  IF dd = 0 THEN NaN
  ELSE LET g == GCD(Abs(n), Abs(dd))
           s == IF dd < 0 THEN -1 ELSE 1
       IN  <<(s * n) \div g, (s * dd) \div g>>

R(n) == <<n, 1>>
Zero == <<0, 1>>
One == <<1, 1>>

RAdd(a, b) ==
  IF a[2] = 0 \/ b[2] = 0 THEN NaN
  ELSE IF a[2] = b[2] THEN Rat(a[1] + b[1], a[2])
  ELSE LET g == GCD(a[2], b[2])
       IN  Rat(a[1] * (b[2] \div g) + b[1] * (a[2] \div g), (a[2] \div g) * b[2])
RNeg(a) == <<-a[1], a[2]>>
RSub(a, b) == RAdd(a, RNeg(b))
RMul(a, b) ==
  IF a[2] = 0 \/ b[2] = 0 THEN NaN
  ELSE IF a[1] = 0 \/ b[1] = 0 THEN Zero
  ELSE LET g1 == GCD(Abs(a[1]), b[2])
           g2 == GCD(Abs(b[1]), a[2])
       IN  <<(a[1] \div g1) * (b[1] \div g2), (a[2] \div g2) * (b[2] \div g1)>>
\* x / 0 is an infinity or NaN in floating point: non-finite
RDiv(a, b) ==
  IF a[2] = 0 \/ b[2] = 0 \/ b[1] = 0 THEN NaN
  ELSE RMul(a, IF b[1] < 0 THEN <<-b[2], -b[1]>> ELSE <<b[2], b[1]>>)
\* comparisons with a non-finite operand are false, as with NaN
RLt(a, b) == a[2] # 0 /\ b[2] # 0 /\ a[1] * b[2] < b[1] * a[2]
RLe(a, b) == a[2] # 0 /\ b[2] # 0 /\ a[1] * b[2] <= b[1] * a[2]
RAbs(a) == <<Abs(a[1]), a[2]>>

\* --------------------------------------------- fixed point (library maths)
ToFix(a) == (a[1] * PREC) \div a[2]
FromFix(i) == Rat(i, PREC)

RECURSIVE ISqrtIter(_, _, _)
ISqrtIter(n, lo, hi) ==
  IF lo >= hi THEN lo
  ELSE LET mid == (lo + hi + 1) \div 2
       IN  IF mid * mid <= n THEN ISqrtIter(n, mid, hi) ELSE ISqrtIter(n, lo, mid - 1)
\* largest k with k*k <= n
ISqrt(n) == ISqrtIter(n, 0, IF n < 46340 THEN n ELSE 46340)

\* wp.sqrt: non-finite for a negative argument
Sqrt(a) ==
  IF a[2] = 0 \/ a[1] < 0 THEN NaN
  ELSE FromFix(ISqrt(ToFix(a) * PREC))

FixMul(x, y) == (x * y) \div PREC

\* wp.sin, wp.cos: Taylor polynomials of degree 5 and 4 in fixed point
Sin(a) ==
  IF a[2] = 0 THEN NaN
  ELSE LET x == ToFix(a)
           x2 == FixMul(x, x)
           x3 == FixMul(x2, x)
           x5 == FixMul(x3, x2)
       IN  FromFix(x - (x3 \div 6) + (x5 \div 120))
Cos(a) ==
  IF a[2] = 0 THEN NaN
  ELSE LET x == ToFix(a)
           x2 == FixMul(x, x)
           x4 == FixMul(x2, x2)
       IN  FromFix(PREC - (x2 \div 2) + (x4 \div 24))

\* wp.exp of a non-positive argument -t: 1 / (1 + t + t^2/2 + t^3/6 + t^4/24)
ExpNeg(t) ==
  IF t[2] = 0 THEN NaN
  ELSE LET x == ToFix(t)
           x2 == FixMul(x, x)
           x3 == FixMul(x2, x)
           x4 == FixMul(x3, x)
           e == PREC + x + (x2 \div 2) + (x3 \div 6) + (x4 \div 24)
       IN  FromFix((PREC * PREC) \div e)

\* wp.clamp(x, lo, hi); lo/hi "inf" are given as NaN-free sentinels below
Clamp(x, lo, hi) == IF RLt(x, lo) THEN lo ELSE IF RLt(hi, x) THEN hi ELSE x

\* ------------------------------------------------------ vectors (wp.vec3)
V3(x, y, z) == <<x, y, z>>
VZero == <<Zero, Zero, Zero>>
VAdd(u, v) == [i \in 1..Len(u) |-> RAdd(u[i], v[i])]
VSub(u, v) == [i \in 1..Len(u) |-> RSub(u[i], v[i])]
VScale(s, v) == [i \in 1..Len(v) |-> RMul(s, v[i])]
RECURSIVE DotFrom(_, _, _)
DotFrom(u, v, i) == IF i > Len(u) THEN Zero ELSE RAdd(RMul(u[i], v[i]), DotFrom(u, v, i + 1))
Dot(u, v) == DotFrom(u, v, 1)
Cross(u, v) ==
  << RSub(RMul(u[2], v[3]), RMul(u[3], v[2])),
     RSub(RMul(u[3], v[1]), RMul(u[1], v[3])),
     RSub(RMul(u[1], v[2]), RMul(u[2], v[1])) >>
VFinite(v) == \A i \in 1..Len(v) : Finite(v[i])

\* wp.length, wp.normalize: evaluated in fixed point, components first
FixVec(v) == [i \in 1..Len(v) |-> ToFix(v[i])]
RECURSIVE SumSq(_, _)
SumSq(f, i) == IF i > Len(f) THEN 0 ELSE f[i] * f[i] + SumSq(f, i + 1)
FixLength(v) == ISqrt(SumSq(FixVec(v), 1))
Length(v) == IF VFinite(v) THEN FromFix(FixLength(v)) ELSE NaN
\* v / length(v); zeroLen is what the library returns for a vector of length 0
NormalizeOr(v, zeroLen) ==
  IF ~VFinite(v) THEN [i \in 1..Len(v) |-> NaN]
  ELSE LET l == FixLength(v)
       IN  IF l = 0 THEN zeroLen
           ELSE [i \in 1..Len(v) |-> FromFix((FixVec(v)[i] * PREC) \div l)]
Normalize(v) == NormalizeOr(v, [i \in 1..Len(v) |-> Zero])

\* ------------------------------------------------------------ math.py
mul_quat(u, v) ==
  << RSub(RSub(RSub(RMul(u[1], v[1]), RMul(u[2], v[2])), RMul(u[3], v[3])), RMul(u[4], v[4])),
     RSub(RAdd(RAdd(RMul(u[1], v[2]), RMul(u[2], v[1])), RMul(u[3], v[4])), RMul(u[4], v[3])),
     RAdd(RAdd(RSub(RMul(u[1], v[3]), RMul(u[2], v[4])), RMul(u[3], v[1])), RMul(u[4], v[2])),
     RAdd(RSub(RAdd(RMul(u[1], v[4]), RMul(u[2], v[3])), RMul(u[3], v[2])), RMul(u[4], v[1])) >>

rot_vec_quat(vec, quat) ==
  LET s == quat[1]
      u == <<quat[2], quat[3], quat[4]>>
      r == VAdd(VScale(R(2), VScale(Dot(u, vec), u)),
                VScale(RSub(RMul(s, s), Dot(u, u)), vec))
  IN  VAdd(r, VScale(RMul(R(2), s), Cross(u, vec)))

axis_angle_to_quat(axis, angle) ==
  LET s == Sin(RMul(angle, <<1, 2>>))
      c == Cos(RMul(angle, <<1, 2>>))
  IN  <<c, RMul(axis[1], s), RMul(axis[2], s), RMul(axis[3], s)>>

\* row-major 3x3 matrix as a 9-tuple
quat_to_mat(q) ==
  LET qq(i, j) == RMul(q[i + 1], q[j + 1])
      two == R(2)
  IN  << RSub(RSub(RAdd(qq(0, 0), qq(1, 1)), qq(2, 2)), qq(3, 3)),
         RMul(two, RSub(qq(1, 2), qq(0, 3))),
         RMul(two, RAdd(qq(1, 3), qq(0, 2))),
         RMul(two, RAdd(qq(1, 2), qq(0, 3))),
         RSub(RAdd(RSub(qq(0, 0), qq(1, 1)), qq(2, 2)), qq(3, 3)),
         RMul(two, RSub(qq(2, 3), qq(0, 1))),
         RMul(two, RSub(qq(1, 3), qq(0, 2))),
         RMul(two, RAdd(qq(2, 3), qq(0, 1))),
         RAdd(RSub(RSub(qq(0, 0), qq(1, 1)), qq(2, 2)), qq(3, 3)) >>

\* mat33 * vec3
MatVec(a, v) ==
  << RAdd(RAdd(RMul(a[1], v[1]), RMul(a[2], v[2])), RMul(a[3], v[3])),
     RAdd(RAdd(RMul(a[4], v[1]), RMul(a[5], v[2])), RMul(a[6], v[3])),
     RAdd(RAdd(RMul(a[7], v[1]), RMul(a[8], v[2])), RMul(a[9], v[3])) >>
Identity3 == <<One, Zero, Zero, Zero, One, Zero, Zero, Zero, One>>
QIdentity == <<One, Zero, Zero, Zero>>

\* mju_mulInertVec: i is a vec10 inertia, v a spatial vector (6-tuple)
inert_vec(i, v) ==
  LET I(k) == i[k + 1]
      W(k) == v[k + 1]
      P(a, b) == RMul(a, b)
  IN  << RAdd(RSub(RAdd(RAdd(P(I(0), W(0)), P(I(3), W(1))), P(I(4), W(2))), P(I(8), W(4))), P(I(7), W(5))),
         RSub(RAdd(RAdd(RAdd(P(I(3), W(0)), P(I(1), W(1))), P(I(5), W(2))), P(I(8), W(3))), P(I(6), W(5))),
         RAdd(RSub(RAdd(RAdd(P(I(4), W(0)), P(I(5), W(1))), P(I(2), W(2))), P(I(7), W(3))), P(I(6), W(4))),
         RAdd(RSub(P(I(8), W(1)), P(I(7), W(2))), P(I(9), W(3))),
         RAdd(RSub(P(I(6), W(2)), P(I(8), W(0))), P(I(9), W(4))),
         RAdd(RSub(P(I(7), W(0)), P(I(6), W(1))), P(I(9), W(5))) >>

motion_cross_force(v, f) ==
  LET v0 == <<v[1], v[2], v[3]>>
      v1 == <<v[4], v[5], v[6]>>
      f0 == <<f[1], f[2], f[3]>>
      f1 == <<f[4], f[5], f[6]>>
      ang == VAdd(Cross(v0, f0), Cross(v1, f1))
      vel == Cross(v0, f1)
  IN  <<ang[1], ang[2], ang[3], vel[1], vel[2], vel[3]>>

\* ------------------------------------------------- program constants
\* joint types as the kernels test them
FREE == 0
BALL == 1
SLIDE == 2
HINGE == 3
\* actuator dynamics type FILTEREXACT
FILTEREXACT == 3
\* the disable bit mjDSBL_EULERDAMP of m.disable_flags
MJ_DSBL_EULERDAMP == 16384
\* positional parameters factor_m and solve_m require, and those euler passes
factor_m_required == 4
solve_m_required == 6
euler_factor_m_args == 2
euler_solve_m_args == 4

\* ------------------------------------------------------------- arrays
Arr(s) == [i \in 0 .. (Len(s) - 1) |-> s[i + 1]]
ALen(a) == Cardinality(DOMAIN a)
RECURSIVE SortedSeq(_)
SortedSeq(S) ==
  IF S = {} THEN <<>>
  ELSE LET x == CHOOSE y \in S : \A z \in S : y <= z
       IN  <<x>> \o SortedSeq(S \ {x})
RECURSIVE SumTo(_, _)
\* f[0] + ... + f[n-1]
SumTo(f, n) == IF n <= 0 THEN 0 ELSE f[n - 1] + SumTo(f, n - 1)
Max(S) == CHOOSE x \in S : \A y \in S : y <= x

\* --------------------------------------------------------------- Model
\* The Model is built once per topology by the model-construction code and is
\* read-only afterwards.  MakeModel derives the index tables of types.Model
\* from a tree description t (arrays over the bodies: parent, jtype with -1
\* for a body without joint; at most one joint per body), and copies the
\* physical parameters.
QposWidth(t) == IF t = FREE THEN 7 ELSE IF t = BALL THEN 4 ELSE IF t < 0 THEN 0 ELSE 1
DofWidth(t) == IF t = FREE THEN 6 ELSE IF t = BALL THEN 3 ELSE IF t < 0 THEN 0 ELSE 1

RECURSIVE BodyDepth(_, _)
BodyDepth(parent, b) == IF b = 0 THEN 0 ELSE 1 + BodyDepth(parent, parent[b])

RECURSIVE LevelCat(_, _, _)
\* the bodies in level order: level l, then l+1, ... up to nl-1
LevelCat(parent, l, nl) ==
  IF l >= nl THEN <<>>
  ELSE SortedSeq({b \in DOMAIN parent : BodyDepth(parent, b) = l})
         \o LevelCat(parent, l + 1, nl)

RECURSIVE DofAncestor(_, _, _, _)
\* last dof of the nearest proper ancestor of body b that has dofs, or -1
DofAncestor(parent, dofadr, dofnum, b) ==
  IF b = 0 THEN -1
  ELSE LET p == parent[b]
       IN  IF dofnum[p] > 0 THEN dofadr[p] + dofnum[p] - 1
           ELSE DofAncestor(parent, dofadr, dofnum, p)

RECURSIVE ChainDepth(_, _)
\* number of proper ancestors of dof k along dof_parentid
ChainDepth(dpar, k) == IF dpar[k] < 0 THEN 0 ELSE 1 + ChainDepth(dpar, dpar[k])

RECURSIVE ChainUp(_, _, _)
\* the n-th ancestor of dof k (n = 0: k itself)
ChainUp(dpar, k, n) == IF n = 0 THEN k ELSE ChainUp(dpar, dpar[k], n - 1)

RECURSIVE RootOf(_, _)
RootOf(parent, b) == IF b = 0 \/ parent[b] = 0 THEN b ELSE RootOf(parent, parent[b])

RECURSIVE UpdCat(_, _, _)
\* the factorization updates of the levels l .. nl-1, level after level
UpdCat(byLevel, l, nl) ==
  IF l >= nl THEN <<>> ELSE byLevel[l] \o UpdCat(byLevel, l + 1, nl)

MakeModel(t) ==
  LET nbody == ALen(t.parent)
      Bodies == 0 .. (nbody - 1)
      depth == [b \in Bodies |-> BodyDepth(t.parent, b)]
      nlevel == Max({depth[b] : b \in Bodies}) + 1
      lsize == [l \in 0 .. (nlevel - 1) |-> Cardinality({b \in Bodies : depth[b] = l})]
      hasj == [b \in Bodies |-> IF t.jtype[b] >= 0 THEN 1 ELSE 0]
      njnt == SumTo(hasj, nbody)
      jbody == [j \in 0 .. (njnt - 1) |->
                  CHOOSE b \in Bodies : hasj[b] = 1 /\ SumTo(hasj, b) = j]
      jtype == [j \in 0 .. (njnt - 1) |-> t.jtype[jbody[j]]]
      qw == [j \in 0 .. (njnt - 1) |-> QposWidth(jtype[j])]
      dw == [j \in 0 .. (njnt - 1) |-> DofWidth(jtype[j])]
      nq == SumTo(qw, njnt)
      nv == SumTo(dw, njnt)
      bdofnum == [b \in Bodies |-> DofWidth(t.jtype[b])]
      bdofadr == [b \in Bodies |-> IF bdofnum[b] = 0 THEN -1 ELSE SumTo(bdofnum, b)]
      Dofs == 0 .. (nv - 1)
      dbody == [k \in Dofs |->
                  CHOOSE b \in Bodies : bdofnum[b] > 0 /\ bdofadr[b] <= k
                                         /\ k < bdofadr[b] + bdofnum[b]]
      dpar == [k \in Dofs |->
                  IF k > bdofadr[dbody[k]] THEN k - 1
                  ELSE DofAncestor(t.parent, bdofadr, bdofnum, dbody[k])]
      ddepth == [k \in Dofs |-> ChainDepth(dpar, k)]
      rowlen == [k \in Dofs |-> ddepth[k] + 1]
      madr == [k \in Dofs |-> SumTo(rowlen, k)]
      nM == SumTo(rowlen, nv)
      \* a level holds the updates whose target row i has that depth; the deepest
      \* dofs are the target of none
      nql == IF nv = 0 THEN 0 ELSE Max({ddepth[k] : k \in Dofs})
      \* updates (i, k, Madr_ki): i the n-th ancestor of k, stored n places after M(k,k)
      UpdOf(l) == {<<ChainUp(dpar, k, n), k, madr[k] + n>> :
                     <<k, n>> \in {kn \in Dofs \X (1 .. nv) :
                                     kn[2] <= ddepth[kn[1]]
                                     /\ ddepth[ChainUp(dpar, kn[1], kn[2])] = l}}
      RECURSIVE SeqOf(_)
      SeqOf(S) ==
        IF S = {} THEN <<>>
        ELSE LET x == CHOOSE y \in S : \A z \in S :
                        y[2] < z[2] \/ (y[2] = z[2] /\ y[1] >= z[1])
             IN  <<x>> \o SeqOf(S \ {x})
      updLevel == [l \in 0 .. (nql - 1) |-> SeqOf(UpdOf(l))]
      qlsize == [l \in 0 .. (nql - 1) |-> Len(updLevel[l])]
  IN  [ nq |-> nq, nv |-> nv, na |-> t.na, nu |-> ALen(t.actuator_actadr),
        nbody |-> nbody, njnt |-> njnt, nM |-> nM,
        timestep |-> t.timestep,
        disable_flags |-> t.disable_flags,
        is_sparse |-> t.is_sparse,
        gravity |-> t.gravity,
        qpos0 |-> t.qpos0,
        body_tree |-> Arr(LevelCat(t.parent, 0, nlevel)),
        body_leveladr |-> [l \in 0 .. (nlevel - 1) |-> SumTo(lsize, l)],
        body_levelsize |-> lsize,
        body_jntadr |-> [b \in Bodies |-> IF hasj[b] = 1 THEN SumTo(hasj, b) ELSE -1],
        body_jntnum |-> hasj,
        body_dofadr |-> bdofadr,
        body_dofnum |-> bdofnum,
        body_parentid |-> t.parent,
        body_rootid |-> [b \in Bodies |-> RootOf(t.parent, b)],
        body_pos |-> t.body_pos,
        body_quat |-> t.body_quat,
        body_inertia |-> t.body_inertia,
        body_mass |-> t.body_mass,
        jnt_bodyid |-> jbody,
        jnt_type |-> jtype,
        jnt_qposadr |-> [j \in 0 .. (njnt - 1) |-> SumTo(qw, j)],
        jnt_dofadr |-> [j \in 0 .. (njnt - 1) |-> SumTo(dw, j)],
        jnt_axis |-> t.jnt_axis,
        jnt_pos |-> t.jnt_pos,
        dof_bodyid |-> dbody,
        dof_parentid |-> dpar,
        dof_Madr |-> madr,
        dof_armature |-> t.dof_armature,
        dof_damping |-> t.dof_damping,
        qLD_updates |-> Arr(UpdCat(updLevel, 0, nql)),
        qLD_leveladr |-> [l \in 0 .. (nql - 1) |-> SumTo(qlsize, l)],
        qLD_levelsize |-> qlsize,
        actuator_actlimited |-> t.actuator_actlimited,
        actuator_actrange |-> t.actuator_actrange,
        actuator_actadr |-> t.actuator_actadr,
        actuator_dyntype |-> t.actuator_dyntype,
        actuator_dynprm |-> t.actuator_dynprm ]

\* ---------------------------------------------------------- topologies
Q(n, dd) == Rat(n, dd)
XAxis == <<One, Zero, Zero>>
YAxis == <<Zero, One, Zero>>
ZAxis == <<Zero, Zero, One>>
Inf == <<1, 0>>
NegInf == <<-1, 0>>

\* Two hinges in a chain (a double pendulum) with five actuators: a limited
\* filter-exact one, a stateless one, a limited and an unlimited one with
\* explicit dynamics, and a filter-exact one whose time constant is 0.
TreePendula(sparse, flags) ==
  [ parent |-> Arr(<<0, 0, 1>>),
    jtype |-> Arr(<<-1, HINGE, HINGE>>),
    na |-> 4,
    timestep |-> Q(1, 2),
    disable_flags |-> flags,
    is_sparse |-> sparse,
    gravity |-> <<Zero, Zero, R(-10)>>,
    qpos0 |-> Arr(<<Zero, Zero>>),
    body_pos |-> Arr(<<VZero, <<Zero, Zero, One>>, <<Zero, Zero, R(-1)>> >>),
    body_quat |-> Arr(<<QIdentity, QIdentity, QIdentity>>),
    body_inertia |-> Arr(<<VZero, <<One, One, One>>, <<One, R(2), One>> >>),
    body_mass |-> Arr(<<Zero, One, R(2)>>),
    jnt_axis |-> Arr(<<YAxis, XAxis>>),
    jnt_pos |-> Arr(<<VZero, <<Zero, Zero, One>> >>),
    dof_armature |-> Arr(<<One, Zero>>),
    dof_damping |-> Arr(<<R(2), One>>),
    actuator_actlimited |-> Arr(<<TRUE, FALSE, TRUE, FALSE, FALSE>>),
    actuator_actrange |-> Arr(<< <<R(-1), One>>, <<Zero, Zero>>, <<Zero, One>>,
                                 <<Zero, Zero>>, <<Zero, Zero>> >>),
    actuator_actadr |-> Arr(<<0, -1, 1, 2, 3>>),
    actuator_dyntype |-> Arr(<<FILTEREXACT, 0, 0, 0, FILTEREXACT>>),
    actuator_dynprm |-> Arr(<< <<One>>, <<Zero>>, <<Zero>>, <<Zero>>, <<Zero>> >>) ]

\* A floating base (free joint) carrying a ball joint and a slide joint.
TreeFloat(sparse, flags) ==
  [ parent |-> Arr(<<0, 0, 1, 1>>),
    jtype |-> Arr(<<-1, FREE, BALL, SLIDE>>),
    na |-> 0,
    timestep |-> Q(1, 2),
    disable_flags |-> flags,
    is_sparse |-> sparse,
    gravity |-> <<Zero, Zero, R(-10)>>,
    qpos0 |-> Arr(<<Zero, Zero, Zero, One, Zero, Zero, Zero, One, Zero, Zero, Zero, Zero>>),
    body_pos |-> Arr(<<VZero, VZero, <<One, Zero, Zero>>, <<Zero, One, Zero>> >>),
    body_quat |-> Arr(<<QIdentity, QIdentity, QIdentity, QIdentity>>),
    body_inertia |-> Arr(<<VZero, <<One, One, One>>, <<One, One, One>>, <<One, One, One>> >>),
    body_mass |-> Arr(<<Zero, R(2), One, One>>),
    jnt_axis |-> Arr(<<ZAxis, ZAxis, XAxis>>),
    jnt_pos |-> Arr(<<VZero, VZero, VZero>>),
    dof_armature |-> [k \in 0 .. 9 |-> Zero],
    dof_damping |-> [k \in 0 .. 9 |-> One],
    actuator_actlimited |-> <<>>,
    actuator_actrange |-> <<>>,
    actuator_actadr |-> <<>>,
    actuator_dyntype |-> <<>>,
    actuator_dynprm |-> <<>> ]

\* A fork of hinges: body 1 hangs from the world, bodies 2 and 3 are siblings
\* below body 1. No actuators.
TreeFork(sparse, flags) ==
  [ parent |-> Arr(<<0, 0, 1, 1>>),
    jtype |-> Arr(<<-1, HINGE, HINGE, HINGE>>),
    na |-> 0,
    timestep |-> Q(1, 2),
    disable_flags |-> flags,
    is_sparse |-> sparse,
    gravity |-> <<Zero, Zero, R(-10)>>,
    qpos0 |-> Arr(<<Zero, Zero, Zero>>),
    body_pos |-> Arr(<<VZero, <<Zero, Zero, One>>, <<One, Zero, Zero>>, <<R(-1), Zero, Zero>> >>),
    body_quat |-> Arr(<<QIdentity, QIdentity, QIdentity, <<Zero, Zero, One, Zero>> >>),
    body_inertia |-> Arr(<<VZero, <<One, One, One>>, <<One, R(2), One>>, <<R(2), One, One>> >>),
    body_mass |-> Arr(<<Zero, One, R(2), One>>),
    jnt_axis |-> Arr(<<YAxis, XAxis, ZAxis>>),
    jnt_pos |-> Arr(<<VZero, <<Zero, Zero, One>>, <<Zero, One, Zero>> >>),
    dof_armature |-> Arr(<<One, Zero, One>>),
    dof_damping |-> Arr(<<One, One, One>>),
    actuator_actlimited |-> <<>>,
    actuator_actrange |-> <<>>,
    actuator_actadr |-> <<>>,
    actuator_dyntype |-> <<>>,
    actuator_dynprm |-> <<>> ]

\* ---------------------------------------------------------------- Data
VARIABLES
  m,      \* the Model (types.Model): set at construction, never written
  d,      \* the Data (types.Data) of the batch: d.<field>[world][index], d.time
  d0,     \* history: the Data on entry of the call in progress or last made
  hist,   \* history: the pipeline stages called so far, in order
  err,    \* outcome of the last call: "none", or the exception it raised
  pc,     \* position of the host code inside a multi-launch stage, "idle" between calls
  lvl,    \* index, in the stage's sequence of launches, of the launch in progress
  pend,   \* work-items of the launch in progress that have not run yet
  loc     \* buffers the stage in progress allocated (mass_subtree, cacc, cfrc)

vars == <<m, d, d0, hist, err, pc, lvl, pend, loc>>

ZeroArr(n) == [i \in 0 .. (n - 1) |-> Zero]
QRows(mm) == IF mm.is_sparse THEN 1 ELSE mm.nv
QCols(mm) == IF mm.is_sparse THEN mm.nM ELSE mm.nv
QSize(mm) == QRows(mm) * QCols(mm)
ZeroSpatial == <<Zero, Zero, Zero, Zero, Zero, Zero>>
ZeroInert == <<Zero, Zero, Zero, Zero, Zero, Zero, Zero, Zero, Zero, Zero>>

\* one world's slice of a freshly allocated Data: zeros, qpos at qpos0,
\* identity poses
BlankWorld(mm) ==
  [ qpos |-> mm.qpos0,
    qvel |-> ZeroArr(mm.nv),
    qacc |-> ZeroArr(mm.nv),
    act |-> ZeroArr(mm.na),
    act_dot |-> ZeroArr(mm.na),
    qacc_eulerdamp |-> ZeroArr(mm.nv),
    qfrc_eulerdamp |-> ZeroArr(mm.nv),
    qfrc_smooth |-> ZeroArr(mm.nv),
    qfrc_constraint |-> ZeroArr(mm.nv),
    qfrc_bias |-> ZeroArr(mm.nv),
    qacc_smooth |-> ZeroArr(mm.nv),
    qM |-> ZeroArr(QSize(mm)),
    qLD |-> ZeroArr(QSize(mm)),
    qLDiagInv |-> ZeroArr(mm.nv),
    xpos |-> [b \in 0 .. (mm.nbody - 1) |-> VZero],
    xquat |-> [b \in 0 .. (mm.nbody - 1) |-> QIdentity],
    xmat |-> [b \in 0 .. (mm.nbody - 1) |-> Identity3],
    xipos |-> [b \in 0 .. (mm.nbody - 1) |-> VZero],
    ximat |-> [b \in 0 .. (mm.nbody - 1) |-> Identity3],
    xanchor |-> [j \in 0 .. (mm.njnt - 1) |-> VZero],
    xaxis |-> [j \in 0 .. (mm.njnt - 1) |-> VZero],
    subtree_com |-> [b \in 0 .. (mm.nbody - 1) |-> VZero],
    cinert |-> [b \in 0 .. (mm.nbody - 1) |-> ZeroInert],
    crb |-> [b \in 0 .. (mm.nbody - 1) |-> ZeroInert],
    cdof |-> [k \in 0 .. (mm.nv - 1) |-> ZeroSpatial],
    cdof_dot |-> [k \in 0 .. (mm.nv - 1) |-> ZeroSpatial],
    cvel |-> [b \in 0 .. (mm.nbody - 1) |-> ZeroSpatial] ]

WorldFields == DOMAIN BlankWorld(MakeModel(TreePendula(TRUE, 0)))

\* the Data of a batch whose world w holds the slice ws[w]
MakeData(ws) ==
  [f \in WorldFields \cup {"time"} |->
     IF f = "time" THEN Zero ELSE [w \in Worlds |-> ws[w][f]]]

\* a kernel that indexes the batch with 0 in place of its world
SliceOfFirstWorld(dd, w) == [f \in WorldFields |-> dd[f][0]]

\* world w's slice of the Data dd
Slice(dd, w) == [f \in WorldFields |-> dd[f][w]]

\* ----------------------------------------------------------- forward.py
\* wp.select(cond, a, b): a when cond is false, b when it is true
Select(cond, a, b) == IF cond THEN b ELSE a

\* wp.normalize of a quaternion: q / length(q), and the library's fixed unit
\* quaternion (last component 1) when the length is 0
QNormalize(q) == NormalizeOr(q, <<Zero, Zero, Zero, One>>)

\* a quaternion integration that returns the product as it is
quat_integrate_without_normalize(q, v, dt) ==
  mul_quat(q, axis_angle_to_quat(Normalize(v), RMul(dt, Length(v))))

quat_integrate_wp(q, v, dt) ==
  LET norm_ == Length(v)
      vn == Normalize(v)
      angle == RMul(dt, norm_)
      q_res == mul_quat(q, axis_angle_to_quat(vn, angle))
  IN  QNormalize(q_res)

\* dyn_prm < WarpMjMinVal, WarpMjMinVal = 1e-15: every positive value this
\* model represents is at least 1/2^31, so the test holds for dyn_prm <= 0 only
BelowMinVal(x) == x[2] # 0 /\ x[1] <= 0

\* act_dot * tau * (1 - exp(-timestep / tau)) of the FILTEREXACT branch.  With
\* tau clamped to WarpMjMinVal the exponential underflows to 0 and the product
\* act_dot * 1e-15 is below the resolution of this model: 0.
FilterStep(act_dot, dyn_prm, timestep) ==
  IF BelowMinVal(dyn_prm) THEN RMul(act_dot, Zero)
  ELSE RMul(RMul(act_dot, dyn_prm), RSub(One, ExpNeg(RDiv(timestep, dyn_prm))))

\* kernel next_activation, work-item (worldId, tid): acts is d.act[worldId]
next_activation(mm, acts, acts_dot, tid) ==
  LET limited == mm.actuator_actlimited[tid]
      range_low == Select(limited, NegInf, mm.actuator_actrange[tid][1])
      range_high == Select(limited, Inf, mm.actuator_actrange[tid][2])
      act_adr == mm.actuator_actadr[tid]
  IN  IF act_adr = -1 THEN acts
      ELSE LET act == acts[act_adr]
               act_dot == acts_dot[act_adr]
               dyn_type == mm.actuator_dyntype[tid]
               dyn_prm == mm.actuator_dynprm[tid][1]
               new == IF dyn_type = FILTEREXACT
                      THEN RAdd(act, FilterStep(act_dot, dyn_prm, mm.timestep))
                      ELSE RAdd(act, RMul(act_dot, mm.timestep))
               \* line 62: wp.clamp returns the clamped value, which is dropped
               clamped == Clamp(new, range_low, range_high)
           IN  [acts EXCEPT ![act_adr] = new]

RECURSIVE next_activation_launch(_, _, _, _)
\* the work-items tid .. nu-1 of one world (they write distinct slots)
next_activation_launch(mm, acts, acts_dot, tid) ==
  IF tid >= mm.nu THEN acts
  ELSE next_activation_launch(mm, next_activation(mm, acts, acts_dot, tid), acts_dot, tid + 1)

\* a velocity update that leaves out the factor m.timestep
advance_velocities_without_timestep(mm, qvel, qacc, tid) == RAdd(qvel[tid], qacc[tid])

\* kernel advance_velocities, work-item (worldId, tid)
advance_velocities(mm, qvel, qacc, tid) == RAdd(qvel[tid], RMul(qacc[tid], mm.timestep))

\* kernel integrate_joint_positions, work-item (worldId, tid): qpos is d.qpos[worldId]
integrate_joint_positions(mm, qpos, qvel, tid) ==
  LET jnt_type == mm.jnt_type[tid]
      qpos_adr == mm.jnt_qposadr[tid]
      dof_adr == mm.jnt_dofadr[tid]
  IN  IF jnt_type = FREE THEN
        LET qpos_pos == <<qpos[qpos_adr], qpos[qpos_adr + 1], qpos[qpos_adr + 2]>>
            qvel_lin == <<qvel[dof_adr], qvel[dof_adr + 1], qvel[dof_adr + 2]>>
            qpos_new == VAdd(qpos_pos, VScale(mm.timestep, qvel_lin))
            qpos_quat == <<qpos[qpos_adr + 3], qpos[qpos_adr + 4],
                           qpos[qpos_adr + 5], qpos[qpos_adr + 6]>>
            qvel_ang == <<qvel[dof_adr + 3], qvel[dof_adr + 4], qvel[dof_adr + 5]>>
            qpos_quat_new == quat_integrate_wp(qpos_quat, qvel_ang, mm.timestep)
        IN  [qpos EXCEPT ![qpos_adr] = qpos_new[1],
                         ![qpos_adr + 1] = qpos_new[2],
                         ![qpos_adr + 2] = qpos_new[3],
                         ![qpos_adr + 3] = qpos_quat_new[1],
                         ![qpos_adr + 4] = qpos_quat_new[2],
                         ![qpos_adr + 5] = qpos_quat_new[3],
                         ![qpos_adr + 6] = qpos_quat_new[4]]
      ELSE IF jnt_type = BALL THEN
        LET qpos_quat == <<qpos[qpos_adr], qpos[qpos_adr + 1],
                           qpos[qpos_adr + 2], qpos[qpos_adr + 3]>>
            qvel_ang == <<qvel[dof_adr], qvel[dof_adr + 1], qvel[dof_adr + 2]>>
            qpos_quat_new == quat_integrate_wp(qpos_quat, qvel_ang, mm.timestep)
        IN  [qpos EXCEPT ![qpos_adr] = qpos_quat_new[1],
                         ![qpos_adr + 1] = qpos_quat_new[2],
                         ![qpos_adr + 2] = qpos_quat_new[3],
                         ![qpos_adr + 3] = qpos_quat_new[4]]
      ELSE [qpos EXCEPT ![qpos_adr] = RAdd(qpos[qpos_adr], RMul(mm.timestep, qvel[dof_adr]))]

RECURSIVE integrate_launch(_, _, _, _)
\* the work-items tid .. njnt-1 of one world (they write distinct slots)
integrate_launch(mm, qpos, qvel, tid) ==
  IF tid >= mm.njnt THEN qpos
  ELSE integrate_launch(mm, integrate_joint_positions(mm, qpos, qvel, tid), qvel, tid + 1)

\* an explicit step: positions integrated with the velocity on entry
_advance_with_old_velocity(mm, dd, act_dot, qacc) ==
  [dd EXCEPT
     !.act = IF mm.na # 0
             THEN [w \in Worlds |-> next_activation_launch(mm, dd.act[w], act_dot[w], 0)]
             ELSE dd.act,
     !.qvel = [w \in Worlds |->
                 [tid \in 0 .. (mm.nv - 1) |-> advance_velocities(mm, dd.qvel[w], qacc[w], tid)]],
     !.qpos = [w \in Worlds |-> integrate_launch(mm, dd.qpos[w], dd.qvel[w], 0)],
     !.time = RAdd(dd.time, mm.timestep)]

\* _advance(m, d, act_dot, qacc, qvel=None): act_dot and qacc are arrays
\* [world][index]; euler passes no qvel, so positions use the new d.qvel
_advance(mm, dd, act_dot, qacc) ==
  LET act1 == IF mm.na # 0
              THEN [w \in Worlds |-> next_activation_launch(mm, dd.act[w], act_dot[w], 0)]
              ELSE dd.act
      qvel1 == [w \in Worlds |->
                  [tid \in 0 .. (mm.nv - 1) |-> advance_velocities(mm, dd.qvel[w], qacc[w], tid)]]
      qvel_in == qvel1
      qpos1 == [w \in Worlds |-> integrate_launch(mm, dd.qpos[w], qvel_in[w], 0)]
  IN  [dd EXCEPT !.act = act1, !.qvel = qvel1, !.qpos = qpos1,
                 !.time = RAdd(dd.time, mm.timestep)]

\* ------------------------------------------- smooth.py: factor_m, solve_m
\* The mass matrix buffers qM and qLD of one world are flat arrays in row-major
\* order: 1 x nM (packed, entry dof_Madr[i] + n is M(i, n-th ancestor of i))
\* when the Model is sparse, nv x nv when it is dense.

\* kernel qLD_acc, work-item (worldid, nodeid) of the level at leveladr
qLD_acc(mm, qLD, leveladr, nodeid) ==
  LET update == mm.qLD_updates[leveladr + nodeid]
      i == update[1]
      k == update[2]
      Madr_ki == update[3]
      Madr_i == mm.dof_Madr[i]
      tmp == RDiv(qLD[Madr_ki], qLD[mm.dof_Madr[k]])
      n == mm.dof_Madr[i + 1] - Madr_i
      sub == [a \in DOMAIN qLD |->
                IF a >= Madr_i /\ a < Madr_i + n
                THEN RSub(qLD[a], RMul(qLD[Madr_ki + (a - Madr_i)], tmp))
                ELSE qLD[a]]
  IN  [sub EXCEPT ![Madr_ki] = tmp]

RECURSIVE qLD_acc_launch(_, _, _, _, _)
\* the work-items nodeid .. size-1 of one level, one world
qLD_acc_launch(mm, qLD, leveladr, size, nodeid) ==
  IF nodeid >= size THEN qLD
  ELSE qLD_acc_launch(mm, qLD_acc(mm, qLD, leveladr, nodeid), leveladr, size, nodeid + 1)

RECURSIVE qLD_levels(_, _, _)
\* the launches of the levels i, i-1, ..., 0
qLD_levels(mm, qLD, i) ==
  IF i < 0 THEN qLD
  ELSE qLD_levels(mm, qLD_acc_launch(mm, qLD, mm.qLD_leveladr[i], mm.qLD_levelsize[i], 0), i - 1)

\* _factor_m_sparse for one world: <<qLD, qLDiagInv>>
factor_m_sparse(mm, qM) ==
  LET qLD == qLD_levels(mm, qM, ALen(mm.qLD_leveladr) - 1)
  IN  << qLD, [dofid \in 0 .. (mm.nv - 1) |-> RDiv(One, qLD[mm.dof_Madr[dofid]])] >>

\* wp.tile_cholesky of the n x n tile a (flat, row-major): the lower triangular
\* L with L L' = a, read from the lower triangle of a; the strict upper
\* triangle of the result is 0
RECURSIVE CholSum(_, _, _, _, _)
\* sum over t < j of L[i][t] * L[j][t]
CholSum(L, n, i, j, t) ==
  IF t >= j THEN Zero
  ELSE RAdd(RMul(L[i * n + t], L[j * n + t]), CholSum(L, n, i, j, t + 1))
RECURSIVE CholFill(_, _, _, _)
\* entries in row-major order from flat position p on
CholFill(a, L, n, p) ==
  IF p >= n * n THEN L
  ELSE LET i == p \div n
           j == p % n
           s == RSub(a[p], CholSum(L, n, i, j, 0))
           v == IF j > i THEN Zero
                ELSE IF j = i THEN Sqrt(s)
                ELSE RDiv(s, L[j * n + j])
       IN  CholFill(a, [L EXCEPT ![p] = v], n, p + 1)
tile_cholesky(a, n) == CholFill(a, [p \in 0 .. (n * n - 1) |-> Zero], n, 0)

\* _factor_m_dense for one world
factor_m_dense(mm, qM) == tile_cholesky(qM, mm.nv)

\* wp.tile_cholesky_solve(L, x): y with (L L') y = x, by forward and backward
\* substitution
RECURSIVE FwdSub(_, _, _, _)
FwdSub(L, n, z, i) ==
  IF i >= n THEN z
  ELSE LET RECURSIVE acc(_)
           acc(t) == IF t >= i THEN Zero ELSE RAdd(RMul(L[i * n + t], z[t]), acc(t + 1))
       IN  FwdSub(L, n, [z EXCEPT ![i] = RDiv(RSub(z[i], acc(0)), L[i * n + i])], i + 1)
RECURSIVE BackSub(_, _, _, _)
BackSub(L, n, y, i) ==
  IF i < 0 THEN y
  ELSE LET RECURSIVE acc(_)
           acc(t) == IF t >= n THEN Zero ELSE RAdd(RMul(L[t * n + i], y[t]), acc(t + 1))
       IN  BackSub(L, n, [y EXCEPT ![i] = RDiv(RSub(y[i], acc(i + 1)), L[i * n + i])], i - 1)
tile_cholesky_solve(L, x, n) == BackSub(L, n, FwdSub(L, n, x, 0), n - 1)

\* kernel solve_m_dense for one world
solve_m_dense(mm, qLD, x) == tile_cholesky_solve(qLD, x, mm.nv)

\* kernel solve_m_sparse for one world; y holds a copy of x on entry
RECURSIVE SweepUp(_, _, _, _, _)
\* while j >= 0: y[j] -= qLD[madr_ij] * y[i]
SweepUp(mm, qLD, y, i, st) ==
  IF st.j < 0 THEN y
  ELSE SweepUp(mm, qLD,
               [y EXCEPT ![st.j] = RSub(y[st.j], RMul(qLD[st.madr_ij], y[i]))],
               i, [madr_ij |-> st.madr_ij + 1, j |-> mm.dof_parentid[st.j]])
RECURSIVE SweepDown(_, _, _, _, _)
\* while j >= 0: y[i] -= qLD[madr_ij] * y[j]
SweepDown(mm, qLD, y, i, st) ==
  IF st.j < 0 THEN y
  ELSE SweepDown(mm, qLD,
                 [y EXCEPT ![i] = RSub(y[i], RMul(qLD[st.madr_ij], y[st.j]))],
                 i, [madr_ij |-> st.madr_ij + 1, j |-> mm.dof_parentid[st.j]])
RECURSIVE SolveLt(_, _, _, _)
\* x <- inv(L') * x: for i in range(nv-1, -1, -1)
SolveLt(mm, qLD, y, i) ==
  IF i < 0 THEN y
  ELSE SolveLt(mm, qLD,
               SweepUp(mm, qLD, y, i, [madr_ij |-> mm.dof_Madr[i] + 1, j |-> mm.dof_parentid[i]]),
               i - 1)
RECURSIVE SolveL(_, _, _, _)
\* x <- inv(L) * x: for i in range(nv)
SolveL(mm, qLD, y, i) ==
  IF i >= mm.nv THEN y
  ELSE SolveL(mm, qLD,
              SweepDown(mm, qLD, y, i, [madr_ij |-> mm.dof_Madr[i] + 1, j |-> mm.dof_parentid[i]]),
              i + 1)
solve_m_sparse(mm, qLD, qLDiagInv, y) ==
  LET y1 == SolveLt(mm, qLD, y, mm.nv - 1)
      y2 == [i \in 0 .. (mm.nv - 1) |-> RMul(y1[i], qLDiagInv[i])]
  IN  SolveL(mm, qLD, y2, 0)

\* a solve that stops after the copy of x to y
solve_m_copy_only(mm, qLD, qLDiagInv, x) == x

\* solve_m for one world: the new y
solve_m(mm, qLD, qLDiagInv, x) ==
  IF mm.is_sparse
  THEN LET y == x IN solve_m_sparse(mm, qLD, qLDiagInv, y)
  ELSE solve_m_dense(mm, qLD, x)

\* ---------------------------------------------------------- smooth.py: crb
\* An access d.qM[worldid, 0, c] with c outside the row (a dense nv x nv
\* buffer addressed with a packed address) is out of bounds: unchecked, it
\* lands at flat offset c of the buffer when that exists (wrap), otherwise and
\* with bounds checking it has no effect on the buffer.
QMAddr(mm, c, wrap) ==
  IF c < QCols(mm) THEN c
  ELSE IF wrap /\ c < QSize(mm) THEN c
  ELSE -1

\* an accumulation that stores the child's inertia instead of adding it
crb_accumulate_overwrite(mm, crbw, leveladr, nodeid) ==
  LET bodyid == mm.body_tree[leveladr + nodeid]
      pid == mm.body_parentid[bodyid]
  IN  IF pid = 0 THEN crbw ELSE [crbw EXCEPT ![pid] = crbw[bodyid]]

\* kernel crb_accumulate, work-item (worldid, nodeid): crbw is d.crb[worldid]
crb_accumulate(mm, crbw, leveladr, nodeid) ==
  LET bodyid == mm.body_tree[leveladr + nodeid]
      pid == mm.body_parentid[bodyid]
  IN  IF pid = 0 THEN crbw
      ELSE [crbw EXCEPT ![pid] = VAdd(crbw[pid], crbw[bodyid])]

RECURSIVE qM_sparse_walk(_, _, _, _, _, _, _)
\* while dofid >= 0: d.qM[worldid, 0, madr_ij] += dot(cdof[dofid], buf)
qM_sparse_walk(mm, qM, cdof, buf, madr_ij, dofid, wrap) ==
  IF dofid < 0 THEN qM
  ELSE LET a == QMAddr(mm, madr_ij, wrap)
           q1 == IF a < 0 THEN qM
                 ELSE [qM EXCEPT ![a] = RAdd(qM[a], Dot(cdof[dofid], buf))]
       IN  qM_sparse_walk(mm, q1, cdof, buf, madr_ij + 1, mm.dof_parentid[dofid], wrap)

\* kernel qM_sparse, work-item (worldid, dofid)
qM_sparse(mm, qM, crbw, cdof, dofid, wrap) ==
  LET madr_ij == mm.dof_Madr[dofid]
      bodyid == mm.dof_bodyid[dofid]
      a == QMAddr(mm, madr_ij, wrap)
      q1 == IF a < 0 THEN qM ELSE [qM EXCEPT ![a] = mm.dof_armature[dofid]]
      buf == inert_vec(crbw[bodyid], cdof[dofid])
  IN  qM_sparse_walk(mm, q1, cdof, buf, madr_ij, dofid, wrap)

RECURSIVE qM_sparse_launch(_, _, _, _, _, _)
\* the work-items dofid .. nv-1 of one world (they write distinct entries)
qM_sparse_launch(mm, qM, crbw, cdof, dofid, wrap) ==
  IF dofid >= mm.nv THEN qM
  ELSE qM_sparse_launch(mm, qM_sparse(mm, qM, crbw, cdof, dofid, wrap), crbw, cdof, dofid + 1, wrap)

\* ------------------------------------------------- smooth.py: kinematics
\* A kernel is given the slice s of d that belongs to its world (every access
\* of the kernels is d.<field>[worldid, ...]) and yields the slice it leaves.

\* a _root that resets the inertial frame of every body, not of body 0 only
_root_every_inertial_frame(s) ==
  [s EXCEPT !.xpos[0] = VZero, !.xquat[0] = QIdentity,
            !.xipos = [b \in DOMAIN s.xipos |-> VZero],
            !.xmat[0] = Identity3,
            !.ximat = [b \in DOMAIN s.ximat |-> Identity3]]

\* kernel _root, work-item (worldid)
_root(s) ==
  [s EXCEPT !.xpos[0] = VZero, !.xquat[0] = QIdentity, !.xipos[0] = VZero,
            !.xmat[0] = Identity3, !.ximat[0] = Identity3]

RECURSIVE _level_joints(_, _, _, _)
\* _level's "for _ in range(jntnum)": n iterations are left, st holds xpos,
\* xquat, jntadr and the xanchor and xaxis arrays
_level_joints(mm, s, st, n) ==
  IF n <= 0 THEN st
  ELSE LET jntadr == st.jntadr
           qadr == mm.jnt_qposadr[jntadr]
           jnt_type == mm.jnt_type[jntadr]
           xanchor == VAdd(rot_vec_quat(mm.jnt_pos[jntadr], st.xquat), st.xpos)
           xaxis == rot_vec_quat(mm.jnt_axis[jntadr], st.xquat)
           qloc == axis_angle_to_quat(mm.jnt_axis[jntadr],
                                      RSub(s.qpos[qadr], mm.qpos0[qadr]))
           xquat == IF jnt_type = HINGE THEN mul_quat(st.xquat, qloc) ELSE st.xquat
           xpos == IF jnt_type = HINGE
                   THEN VSub(xanchor, rot_vec_quat(mm.jnt_pos[jntadr], xquat))
                   ELSE st.xpos
       IN  _level_joints(mm, s,
             [xpos |-> xpos, xquat |-> xquat, jntadr |-> jntadr + 1,
              xanchor |-> [st.xanchor EXCEPT ![jntadr] = xanchor],
              xaxis |-> [st.xaxis EXCEPT ![jntadr] = xaxis]],
             n - 1)

\* kernel _level, work-item (worldid, nodeid)
_level(mm, s, leveladr, nodeid) ==
  LET bodyid == mm.body_tree[leveladr + nodeid]
      jntadr == mm.body_jntadr[bodyid]
      jntnum == mm.body_jntnum[bodyid]
      qpos == s.qpos
      free == IF jntnum = 1 THEN mm.jnt_type[jntadr] = FREE ELSE FALSE
      st == IF free
            THEN LET qadr == mm.jnt_qposadr[jntadr]
                     xpos == <<qpos[qadr], qpos[qadr + 1], qpos[qadr + 2]>>
                 IN  [xpos |-> xpos,
                      xquat |-> <<qpos[qadr + 3], qpos[qadr + 4], qpos[qadr + 5], qpos[qadr + 6]>>,
                      jntadr |-> jntadr,
                      xanchor |-> [s.xanchor EXCEPT ![jntadr] = xpos],
                      xaxis |-> [s.xaxis EXCEPT ![jntadr] = mm.jnt_axis[jntadr]]]
            ELSE LET pid == mm.body_parentid[bodyid]
                 IN  _level_joints(mm, s,
                       [xpos |-> VAdd(MatVec(s.xmat[pid], mm.body_pos[bodyid]), s.xpos[pid]),
                        xquat |-> mul_quat(s.xquat[pid], mm.body_quat[bodyid]),
                        jntadr |-> jntadr,
                        xanchor |-> s.xanchor,
                        xaxis |-> s.xaxis],
                       jntnum)
  IN  [s EXCEPT !.xanchor = st.xanchor,
                !.xaxis = st.xaxis,
                !.xpos[bodyid] = st.xpos,
                !.xquat[bodyid] = QNormalize(st.xquat),
                !.xmat[bodyid] = quat_to_mat(st.xquat)]

\* --------------------------------------------------- smooth.py: com_pos
\* kernel mass_subtree_acc, work-item (nodeid): no world dimension
mass_subtree_acc(mm, mass_subtree, leveladr, nodeid) ==
  LET bodyid == mm.body_tree[leveladr + nodeid]
      pid == mm.body_parentid[bodyid]
  IN  [mass_subtree EXCEPT ![pid] = RAdd(mass_subtree[pid], mass_subtree[bodyid])]

\* kernel subtree_com_init, work-item (worldid, bodyid)
subtree_com_init(mm, s, bodyid) ==
  [s EXCEPT !.subtree_com[bodyid] = VScale(mm.body_mass[bodyid], s.xipos[bodyid])]

\* kernel subtree_com_acc, work-item (worldid, nodeid)
subtree_com_acc(mm, s, leveladr, nodeid) ==
  LET bodyid == mm.body_tree[leveladr + nodeid]
      pid == mm.body_parentid[bodyid]
  IN  [s EXCEPT !.subtree_com[pid] = VAdd(s.subtree_com[pid], s.subtree_com[bodyid])]

\* kernel subtree_div, work-item (worldid, bodyid)
subtree_div(mass_subtree, s, bodyid) ==
  [s EXCEPT !.subtree_com[bodyid] =
     <<RDiv(s.subtree_com[bodyid][1], mass_subtree[bodyid]),
       RDiv(s.subtree_com[bodyid][2], mass_subtree[bodyid]),
       RDiv(s.subtree_com[bodyid][3], mass_subtree[bodyid])>>]

\* entry (r, c), 0-based, of mat @ diag(inert) @ transpose(mat)
RotInertia(mat, inert, r, c) ==
  RAdd(RAdd(RMul(RMul(mat[3 * r + 1], inert[1]), mat[3 * c + 1]),
            RMul(RMul(mat[3 * r + 2], inert[2]), mat[3 * c + 2])),
       RMul(RMul(mat[3 * r + 3], inert[3]), mat[3 * c + 3]))

\* kernel cinert, work-item (worldid, bodyid)
cinert(mm, s, bodyid) ==
  LET mat == s.ximat[bodyid]
      inert == mm.body_inertia[bodyid]
      mass == mm.body_mass[bodyid]
      dif == VSub(s.xipos[bodyid], s.subtree_com[mm.body_rootid[bodyid]])
      sq(a, b) == RMul(mass, RAdd(RMul(dif[a], dif[a]), RMul(dif[b], dif[b])))
      pr(a, b) == RMul(RMul(mass, dif[a]), dif[b])
      res == << RAdd(RotInertia(mat, inert, 0, 0), sq(2, 3)),
                RAdd(RotInertia(mat, inert, 1, 1), sq(1, 3)),
                RAdd(RotInertia(mat, inert, 2, 2), sq(1, 2)),
                RSub(RotInertia(mat, inert, 0, 1), pr(1, 2)),
                RSub(RotInertia(mat, inert, 0, 2), pr(1, 3)),
                RSub(RotInertia(mat, inert, 1, 2), pr(2, 3)),
                RMul(mass, dif[1]), RMul(mass, dif[2]), RMul(mass, dif[3]),
                mass >>
  IN  [s EXCEPT !.cinert[bodyid] = res]

Spatial(u, v) == <<u[1], u[2], u[3], v[1], v[2], v[3]>>
\* row r (0-based) of the transpose of the 3x3 matrix a
TransposedRow(a, r) == <<a[r + 1], a[r + 4], a[r + 7]>>

\* kernel cdof, work-item (worldid, jntid)
cdof(mm, s, jntid) ==
  LET bodyid == mm.jnt_bodyid[jntid]
      dofid == mm.jnt_dofadr[jntid]
      jnt_type == mm.jnt_type[jntid]
      xaxis == s.xaxis[jntid]
      xmat(r) == TransposedRow(s.xmat[bodyid], r)
      offset == VSub(s.subtree_com[mm.body_rootid[bodyid]], s.xanchor[jntid])
      rot(r) == Spatial(xmat(r), Cross(xmat(r), offset))
      res == s.cdof
  IN  [s EXCEPT !.cdof =
        IF jnt_type = FREE
        THEN [res EXCEPT ![dofid] = <<Zero, Zero, Zero, One, Zero, Zero>>,
                         ![dofid + 1] = <<Zero, Zero, Zero, Zero, One, Zero>>,
                         ![dofid + 2] = <<Zero, Zero, Zero, Zero, Zero, One>>,
                         ![dofid + 3] = rot(0),
                         ![dofid + 4] = rot(1),
                         ![dofid + 5] = rot(2)]
        ELSE IF jnt_type = BALL
        THEN [res EXCEPT ![dofid] = rot(0), ![dofid + 1] = rot(1), ![dofid + 2] = rot(2)]
        ELSE IF jnt_type = SLIDE
        THEN [res EXCEPT ![dofid] = Spatial(VZero, xaxis)]
        ELSE IF jnt_type = HINGE
        THEN [res EXCEPT ![dofid] = Spatial(xaxis, Cross(xaxis, offset))]
        ELSE res]

\* ------------------------------------------------------- smooth.py: rne
\* cacc and cfrc are buffers of the call, one row per world: c is the row of
\* the kernel's world
cacc_gravity(mm, c) == [c EXCEPT ![0] = Spatial(VZero, VScale(R(-1), mm.gravity))]

RECURSIVE cacc_level_dofs(_, _, _, _, _)
\* for i in range(dofnum): local_cacc += cdof_dot[dofadr + i] * qvel[dofadr + i]
cacc_level_dofs(s, local_cacc, dofadr, i, dofnum) ==
  IF i >= dofnum THEN local_cacc
  ELSE cacc_level_dofs(s,
         VAdd(local_cacc, VScale(s.qvel[dofadr + i], s.cdof_dot[dofadr + i])),
         dofadr, i + 1, dofnum)

\* kernel cacc_level, work-item (worldid, nodeid)
cacc_level(mm, s, c, leveladr, nodeid) ==
  LET bodyid == mm.body_tree[leveladr + nodeid]
      dofnum == mm.body_dofnum[bodyid]
      pid == mm.body_parentid[bodyid]
      dofadr == mm.body_dofadr[bodyid]
  IN  [c EXCEPT ![bodyid] = cacc_level_dofs(s, c[pid], dofadr, 0, dofnum)]

\* kernel frc, work-item (worldid, bodyid)
frc(s, cfrc, cacc, bodyid) ==
  LET tmp0 == inert_vec(s.cinert[bodyid], cacc[bodyid])
      tmp1 == inert_vec(s.cinert[bodyid], s.cvel[bodyid])
      tmp2 == motion_cross_force(s.cvel[bodyid], tmp1)
  IN  [cfrc EXCEPT ![bodyid] = VAdd(cfrc[bodyid], VAdd(tmp0, tmp2))]

\* kernel cfrc_fn, work-item (worldid, nodeid)
cfrc_fn(mm, cfrc, leveladr, nodeid) ==
  LET bodyid == mm.body_tree[leveladr + nodeid]
      pid == mm.body_parentid[bodyid]
  IN  [cfrc EXCEPT ![pid] = VAdd(cfrc[pid], cfrc[bodyid])]

\* kernel qfrc_bias, work-item (worldid, dofid)
qfrc_bias(mm, s, cfrc, dofid) ==
  LET bodyid == mm.dof_bodyid[dofid]
  IN  [s EXCEPT !.qfrc_bias[dofid] = Dot(s.cdof[dofid], cfrc[bodyid])]

\* ------------------------------------------------- launches of a stage
\* A stage with several kernel launches (kinematics, com_pos, crb, rne) is a
\* sequence of launches; a launch is complete (the barrier between launches)
\* when all of its work-items have run, and its work-items run in any order.
\* An item <<w, n>> is work-item n of world w of a launch over a tree level;
\* <<w, -1>> stands for the work-items of world w of a launch whose items
\* write distinct entries and read nothing the launch writes (run in index
\* order); <<-1, n>> is work-item n of a launch without world dimension;
\* <<-1, -1>> is an operation of the host between launches.
NLevel(mm) == ALen(mm.body_leveladr)
\* for adr, size in zip(leveladr, levelsize)
LevelsUp(mm) == [i \in 1 .. NLevel(mm) |-> i - 1]
\* for i in range(len(leveladr) - 1, -1, -1)
LevelsDown(mm) == [i \in 1 .. NLevel(mm) |-> NLevel(mm) - i]
\* for i in range(len(leveladr) - 1, 0, -1)
LevelsDownTo1(mm) == [i \in 1 .. (NLevel(mm) - 1) |-> NLevel(mm) - i]

\* a kinematics that launches the deepest level first
kinematics_levels_deepest_first(mm) == LevelsDown(mm)

kinematics_levels(mm) == LevelsUp(mm)

LevelLaunch(mm, kernel, l) ==
  [kernel |-> kernel, adr |-> mm.body_leveladr[l],
   items |-> Worlds \X (0 .. (mm.body_levelsize[l] - 1))]
NodeLaunch(mm, kernel, l) ==
  [kernel |-> kernel, adr |-> mm.body_leveladr[l],
   items |-> {-1} \X (0 .. (mm.body_levelsize[l] - 1))]
WorldLaunch(kernel) == [kernel |-> kernel, adr |-> 0, items |-> Worlds \X {-1}]
HostStep(kernel) == [kernel |-> kernel, adr |-> 0, items |-> {<<-1, -1>>}]
OverLevels(mm, kernel, levels) ==
  [i \in 1 .. Len(levels) |-> LevelLaunch(mm, kernel, levels[i])]

Launches(stage, mm) ==
  CASE stage = "kinematics" ->
         <<WorldLaunch("_root")>> \o OverLevels(mm, "_level", kinematics_levels(mm))
    [] stage = "com_pos" ->
         [i \in 1 .. NLevel(mm) |-> NodeLaunch(mm, "mass_subtree_acc", LevelsDown(mm)[i])]
           \o <<WorldLaunch("subtree_com_init")>>
           \o OverLevels(mm, "subtree_com_acc", LevelsDown(mm))
           \o <<WorldLaunch("subtree_div"), WorldLaunch("cinert"), WorldLaunch("cdof")>>
    [] stage = "crb" ->
         OverLevels(mm, "crb_accumulate", LevelsDown(mm))
           \o <<HostStep("zero_"), WorldLaunch("qM_sparse")>>
    [] stage = "rne" ->
         <<WorldLaunch("cacc_gravity")>>
           \o OverLevels(mm, "cacc_level", LevelsUp(mm))
           \o <<WorldLaunch("frc")>>
           \o OverLevels(mm, "cfrc_fn", LevelsDownTo1(mm))
           \o <<WorldLaunch("qfrc_bias")>>

\* buffers a stage allocates on entry: com_pos clones m.body_mass into
\* mass_subtree, rne allocates cacc and cfrc filled with zeros
NoLoc == [mass_subtree |-> <<>>, cacc |-> <<>>, cfrc |-> <<>>]
InitLoc(stage, mm) ==
  CASE stage = "com_pos" -> [NoLoc EXCEPT !.mass_subtree = mm.body_mass]
    [] stage = "rne" ->
         [NoLoc EXCEPT
            !.cacc = [w \in Worlds |-> [b \in 0 .. (mm.nbody - 1) |-> ZeroSpatial]],
            !.cfrc = [w \in Worlds |-> [b \in 0 .. (mm.nbody - 1) |-> ZeroSpatial]]]
    [] OTHER -> NoLoc
\* what the host does to d on entry, before the first launch: crb's
\* wp.copy(d.crb, d.cinert)
OnEntry(stage, dd) == IF stage = "crb" THEN [dd EXCEPT !.crb = dd.cinert] ELSE dd

\* the Data dd with world w's slice replaced by s
SetSlice(dd, w, s) ==
  [f \in DOMAIN dd |-> IF f = "time" THEN dd.time ELSE [dd[f] EXCEPT ![w] = s[f]]]

RECURSIVE subtree_com_init_launch(_, _, _)
subtree_com_init_launch(mm, s, b) ==
  IF b >= mm.nbody THEN s ELSE subtree_com_init_launch(mm, subtree_com_init(mm, s, b), b + 1)
RECURSIVE subtree_div_launch(_, _, _, _)
subtree_div_launch(mm, ms, s, b) ==
  IF b >= mm.nbody THEN s ELSE subtree_div_launch(mm, ms, subtree_div(ms, s, b), b + 1)
RECURSIVE cinert_launch(_, _, _)
cinert_launch(mm, s, b) ==
  IF b >= mm.nbody THEN s ELSE cinert_launch(mm, cinert(mm, s, b), b + 1)
RECURSIVE cdof_launch(_, _, _)
cdof_launch(mm, s, j) ==
  IF j >= mm.njnt THEN s ELSE cdof_launch(mm, cdof(mm, s, j), j + 1)
RECURSIVE frc_launch(_, _, _, _, _)
frc_launch(mm, s, cfrc, cacc, b) ==
  IF b >= mm.nbody THEN cfrc ELSE frc_launch(mm, s, frc(s, cfrc, cacc, b), cacc, b + 1)
RECURSIVE qfrc_bias_launch(_, _, _, _)
qfrc_bias_launch(mm, s, cfrc, k) ==
  IF k >= mm.nv THEN s ELSE qfrc_bias_launch(mm, qfrc_bias(mm, s, cfrc, k), cfrc, k + 1)

\* one item of a launch runs on the Data dd and the buffers ll: the Data and
\* buffers it leaves
RunItem(mm, la, it, dd, ll, wrap) ==
  LET w == it[1]
      n == it[2]
      k == la.kernel
      s == Slice(dd, w)
      D(s1) == [d |-> SetSlice(dd, w, s1), loc |-> ll]
  IN  CASE k = "_root" -> D(_root(s))
        [] k = "_level" -> D(_level(mm, s, la.adr, n))
        [] k = "mass_subtree_acc" ->
             [d |-> dd,
              loc |-> [ll EXCEPT !.mass_subtree = mass_subtree_acc(mm, ll.mass_subtree, la.adr, n)]]
        [] k = "subtree_com_init" -> D(subtree_com_init_launch(mm, s, 0))
        [] k = "subtree_com_acc" -> D(subtree_com_acc(mm, s, la.adr, n))
        [] k = "subtree_div" -> D(subtree_div_launch(mm, ll.mass_subtree, s, 0))
        [] k = "cinert" -> D(cinert_launch(mm, s, 0))
        [] k = "cdof" -> D(cdof_launch(mm, s, 0))
        [] k = "crb_accumulate" ->
             D([s EXCEPT !.crb = crb_accumulate(mm, s.crb, la.adr, n)])
        [] k = "zero_" ->
             [d |-> [dd EXCEPT !.qM = [v \in Worlds |-> ZeroArr(QSize(mm))]], loc |-> ll]
        [] k = "qM_sparse" ->
             D([s EXCEPT !.qM = qM_sparse_launch(mm, s.qM, s.crb, s.cdof, 0, wrap)])
        [] k = "cacc_gravity" ->
             [d |-> dd, loc |-> [ll EXCEPT !.cacc[w] = cacc_gravity(mm, ll.cacc[w])]]
        [] k = "cacc_level" ->
             [d |-> dd, loc |-> [ll EXCEPT !.cacc[w] = cacc_level(mm, s, ll.cacc[w], la.adr, n)]]
        [] k = "frc" ->
             [d |-> dd, loc |-> [ll EXCEPT !.cfrc[w] = frc_launch(mm, s, ll.cfrc[w], ll.cacc[w], 0)]]
        [] k = "cfrc_fn" ->
             [d |-> dd, loc |-> [ll EXCEPT !.cfrc[w] = cfrc_fn(mm, ll.cfrc[w], la.adr, n)]]
        [] k = "qfrc_bias" -> D(qfrc_bias_launch(mm, s, ll.cfrc[w], 0))

\* ------------------------------------------------------------ actions
Stages == {"kinematics", "com_pos", "crb", "rne"}
Idle == pc = "idle" /\ err = "none" /\ Len(hist) < MaxSteps
\* no call was made yet
First == hist = <<>>
Call(name) == /\ hist' = Append(hist, name)
              /\ d0' = d
\* Python binds the positional arguments of a call before the body runs: too
\* few of them raise TypeError
Binds(given, required) == given >= required

\* kinematics(m, d), com_pos(m, d), crb(m, d) or rne(m, d) is called: the host
\* allocates the stage's buffers and makes the first launch
Begin(stage) ==
  /\ Idle
  /\ Call(stage)
  /\ d' = OnEntry(stage, d)
  /\ loc' = InitLoc(stage, m)
  /\ pc' = stage
  /\ lvl' = 1
  /\ pend' = Launches(stage, m)[1].items
  /\ UNCHANGED <<m, err>>
Kinematics == Begin("kinematics")
ComPos == Begin("com_pos")
Crb == Begin("crb")
Rne == Begin("rne")

\* one item of the launch in progress runs
Item ==
  /\ pc \in Stages
  /\ \E it \in pend : \E wrap \in BOOLEAN :
       \E r \in {RunItem(m, Launches(pc, m)[lvl], it, d, loc, wrap)} :
         /\ d' = r.d
         /\ loc' = r.loc
         /\ pend' = pend \ {it}
  /\ UNCHANGED <<m, d0, hist, err, pc, lvl>>

\* the launch in progress is complete: the host makes the next one
Launch ==
  /\ pc \in Stages /\ pend = {} /\ lvl < Len(Launches(pc, m))
  /\ lvl' = lvl + 1
  /\ pend' = Launches(pc, m)[lvl + 1].items
  /\ UNCHANGED <<m, d, d0, hist, err, pc, loc>>

\* the last launch is complete: the stage returns, its buffers are dropped
Return ==
  /\ pc \in Stages /\ pend = {} /\ lvl = Len(Launches(pc, m))
  /\ pc' = "idle"
  /\ lvl' = 0
  /\ loc' = NoLoc
  /\ UNCHANGED <<m, d, d0, hist, err, pend>>

\* a factor_m without the assertion
factor_m_asserts_nothing(mm, withInv) == TRUE

\* factor_m's "assert qLDiagInv is not None", reached when the Model is sparse
factor_m_asserts(mm, withInv) == mm.is_sparse => withInv

\* factor_m(m, d, d.qM, d.qLD, d.qLDiagInv) when withInv, and
\* factor_m(m, d, d.qM, d.qLD) with qLDiagInv left at its default None
\* otherwise. A sparse factorization that got past the assertion without the
\* buffer would fail at the launch of qLDiag_div, qLD already written.
factor_m(mm, dd, withInv) ==
  IF ~factor_m_asserts(mm, withInv)
  THEN [d |-> dd, err |-> "AssertionError"]
  ELSE IF mm.is_sparse
  THEN [d |-> [dd EXCEPT !.qLD = [w \in Worlds |-> factor_m_sparse(mm, dd.qM[w])[1]],
                         !.qLDiagInv = [w \in Worlds |->
                             IF withInv THEN factor_m_sparse(mm, dd.qM[w])[2]
                             ELSE dd.qLDiagInv[w]]],
        err |-> IF withInv THEN "none" ELSE "RuntimeError"]
  ELSE [d |-> [dd EXCEPT !.qLD = [w \in Worlds |-> factor_m_dense(mm, dd.qM[w])]],
        err |-> "none"]

FactorM(withInv) ==
  /\ Idle
  /\ Call(IF withInv THEN "factor_m" ELSE "factor_m_noinv")
  /\ \E r \in {factor_m(m, d, withInv)} :
       /\ d' = r.d
       /\ err' = r.err
  /\ UNCHANGED <<m, pc, lvl, pend, loc>>

\* solve_m(m, d, d.qLD, d.qLDiagInv, d.qfrc_smooth, d.qacc_smooth):
\* x is d.qfrc_smooth, y is d.qacc_smooth
solve_m_smooth(mm, dd) ==
  [dd EXCEPT !.qacc_smooth =
     [w \in Worlds |-> solve_m(mm, dd.qLD[w], dd.qLDiagInv[w], dd.qfrc_smooth[w])]]

SolveM ==
  /\ Idle
  /\ Call("solve_m")
  /\ d' = solve_m_smooth(m, d)
  /\ UNCHANGED <<m, err, pc, lvl, pend, loc>>

\* ------------------------------------------------------ forward.py: euler
EulerDampDisabled(mm) == (mm.disable_flags \div MJ_DSBL_EULERDAMP) % 2 = 1

\* What an out-of-bounds read of a launch returns is not defined: junk.adr for
\* a read of m.dof_Madr (an address of the buffer, or m.nM: outside of it) and
\* junk.val for a read of m.dof_damping.
Junk(mm) == [adr : {0, mm.nM - 1, mm.nM}, val : {Zero, One}]

\* euler's kernel add_damping_dense, work-item (worldId, tid), launched over
\* (nworld, nM) when m.is_sparse; m.dof_Madr and m.dof_damping hold nv entries
add_damping_dense(mm, qM, tid, junk) ==
  LET dof_Madr == IF tid < mm.nv THEN mm.dof_Madr[tid] ELSE junk.adr
      damping == IF dof_Madr < mm.nv THEN mm.dof_damping[dof_Madr] ELSE junk.val
  IN  IF dof_Madr < mm.nM
      THEN [qM EXCEPT ![dof_Madr] = RAdd(qM[dof_Madr], RMul(mm.timestep, damping))]
      ELSE qM

RECURSIVE add_damping_dense_launch(_, _, _, _)
add_damping_dense_launch(mm, qM, tid, junk) ==
  IF tid >= mm.nM THEN qM
  ELSE add_damping_dense_launch(mm, add_damping_dense(mm, qM, tid, junk), tid + 1, junk)

\* euler's kernel add_damping_sparse, work-item (worldId, tid), launched over
\* (nworld, nv) when not m.is_sparse: d.qM[worldId, tid, tid]
add_damping_sparse(mm, qM, tid) ==
  [qM EXCEPT ![tid * mm.nv + tid] = RAdd(qM[tid * mm.nv + tid], RMul(mm.timestep, mm.dof_damping[tid]))]

RECURSIVE add_damping_sparse_launch(_, _, _)
add_damping_sparse_launch(mm, qM, tid) ==
  IF tid >= mm.nv THEN qM
  ELSE add_damping_sparse_launch(mm, add_damping_sparse(mm, qM, tid), tid + 1)

\* euler's kernel sum_qfrc, work-item (worldId, tid)
sum_qfrc(dd, w, tid) == RAdd(dd.qfrc_smooth[w][tid], dd.qfrc_constraint[w][tid])

\* the Data after the launches of lines 186-190
EulerDamped(mm, dd, junk) ==
  [dd EXCEPT
     !.qM = [w \in Worlds |->
               IF mm.is_sparse THEN add_damping_dense_launch(mm, dd.qM[w], 0, junk)
               ELSE add_damping_sparse_launch(mm, dd.qM[w], 0)],
     !.qfrc_eulerdamp = [w \in Worlds |-> [tid \in 0 .. (mm.nv - 1) |-> sum_qfrc(dd, w, tid)]]]

\* lines 192-194 when both calls bind their arguments
EulerSolved(mm, dd) ==
  LET f == [w \in Worlds |->
              IF mm.is_sparse THEN factor_m_sparse(mm, dd.qM[w])
              ELSE <<factor_m_dense(mm, dd.qM[w]), dd.qLDiagInv[w]>>]
      d3 == [dd EXCEPT !.qLD = [w \in Worlds |-> f[w][1]],
                       !.qLDiagInv = [w \in Worlds |-> f[w][2]]]
      d4 == [d3 EXCEPT !.qacc_eulerdamp =
               [w \in Worlds |-> solve_m(mm, d3.qLD[w], d3.qLDiagInv[w], d3.qfrc_eulerdamp[w])]]
  IN  _advance(mm, d4, d4.act_dot, d4.qacc_eulerdamp)

\* line 183: wp.copy(d.qacc_eulerdamp, d.qacc)
EulerCopied(dd) == [dd EXCEPT !.qacc_eulerdamp = dd.qacc]

\* line 194: _advance(m, d, d.act_dot, d.qacc_eulerdamp)
EulerAdvance(mm, dd) == _advance(mm, dd, dd.act_dot, dd.qacc_eulerdamp)

\* euler(m, d): the Data it leaves and the exception it raises, if any
euler(mm, dd, junk) ==
  IF EulerDampDisabled(mm)
  THEN [d |-> EulerAdvance(mm, EulerCopied(dd)), err |-> "none"]
  ELSE IF ~Binds(euler_factor_m_args, factor_m_required)
          \/ ~Binds(euler_solve_m_args, solve_m_required)
  THEN [d |-> EulerDamped(mm, EulerCopied(dd), junk), err |-> "TypeError"]
  ELSE [d |-> EulerSolved(mm, EulerDamped(mm, EulerCopied(dd), junk)), err |-> "none"]

Euler ==
  /\ Idle
  /\ Call("euler")
  /\ \E junk \in Junk(m) : \E r \in {euler(m, d, junk)} :
       /\ d' = r.d
       /\ err' = r.err
  /\ UNCHANGED <<m, pc, lvl, pend, loc>>

\* ------------------------------------------- the integrator on its own
\* Initial Data of the pendulum: per world one of three states
PendulaWorld(mm, k) ==
  LET b == BlankWorld(mm)
      pick(s) == Arr(s[k])
  IN  [b EXCEPT
         !.qvel = pick(<< <<One, One>>, <<Zero, R(-1)>>, <<Q(1, 2), R(2)>> >>),
         !.qacc = pick(<< <<One, One>>, <<R(2), Zero>>, <<R(-1), Q(1, 2)>> >>),
         !.act = pick(<< <<Zero, Q(1, 2), Zero, Zero>>, <<One, One, R(3), Zero>>,
                         <<R(-1), Zero, Zero, One>> >>),
         !.act_dot = pick(<< <<One, One, One, One>>, <<R(2), R(2), R(-1), One>>,
                             <<R(-1), R(-1), Zero, Zero>> >>),
         !.qfrc_smooth = pick(<< <<One, Zero>>, <<R(2), One>>, <<Zero, R(-1)>> >>),
         !.qfrc_constraint = pick(<< <<Zero, One>>, <<One, One>>, <<Zero, Zero>> >>),
         !.cinert = pick(<<
            << ZeroInert, <<One, One, One, Zero, Zero, Zero, Zero, Zero, Zero, One>>,
               <<One, R(2), R(2), Zero, Zero, Zero, One, Zero, Zero, One>> >>,
            << ZeroInert, <<R(2), R(2), R(2), Zero, Zero, Zero, Zero, Zero, Zero, R(2)>>,
               <<One, One, One, Zero, Zero, Zero, Zero, Zero, Zero, One>> >>,
            << ZeroInert, <<One, R(3), R(3), Zero, Zero, Zero, R(-1), Zero, Zero, One>>,
               <<One, R(2), R(2), Zero, Zero, Zero, One, Zero, Zero, One>> >> >>),
         !.cdof = pick(<<
            << <<Zero, One, Zero, Zero, Zero, Zero>>, <<Zero, One, Zero, Zero, Zero, One>> >>,
            << <<Zero, One, Zero, Zero, Zero, Zero>>, <<Zero, One, Zero, Zero, Zero, Zero>> >>,
            << <<Zero, One, Zero, Zero, Zero, One>>, <<Zero, One, Zero, Zero, Zero, R(-1)>> >> >>),
         !.qM = IF mm.is_sparse
                THEN pick(<< <<R(3), R(2), One>>, <<R(5), R(2), One>>, <<R(2), One, Zero>> >>)
                ELSE pick(<< <<R(4), R(2), R(2), R(5)>>, <<R(9), R(3), R(3), R(5)>>,
                             <<One, Zero, Zero, R(4)>> >>)]

\* Initial Data of the floating base: position and quaternion of the free
\* joint, quaternion of the ball joint, slide position; the quaternions are
\* not all of unit length (the caller sets qpos), none is zero
FloatWorld(mm, k) ==
  LET b == BlankWorld(mm)
      pick(s) == Arr(s[k])
  IN  [b EXCEPT
         !.qpos = pick(<<
            <<Zero, Zero, One, One, Zero, Zero, Zero, Zero, One, Zero, Zero, Zero>>,
            <<One, Zero, Zero, R(2), Zero, Zero, Zero, One, One, Zero, Zero, One>>,
            <<Zero, One, Zero, Q(3, 5), Q(4, 5), Zero, Zero, Zero, Zero, One, One, R(-1)>> >>),
         !.qvel = pick(<<
            <<One, Zero, Zero, Zero, Zero, Zero, Zero, Zero, R(2), One>>,
            <<Zero, One, Zero, One, Zero, Zero, Zero, R(3), R(4), Zero>>,
            <<Zero, Zero, R(-1), One, One, Zero, Zero, Zero, Zero, R(2)>> >>),
         !.qacc = pick(<<
            <<Zero, Zero, Zero, Zero, Zero, Zero, Zero, Zero, Zero, Zero>>,
            <<One, Zero, Zero, Zero, Zero, One, Zero, Zero, Zero, One>>,
            <<Zero, Zero, R(-1), Zero, Zero, Zero, One, Zero, Zero, Zero>> >>)]

EulerModels ==
  {MakeModel(TreePendula(sp, fl)) : sp \in BOOLEAN, fl \in {0, MJ_DSBL_EULERDAMP}}
    \cup {MakeModel(TreeFloat(TRUE, fl)) : fl \in {0, MJ_DSBL_EULERDAMP}}

\* between calls, nothing called yet
AtRest ==
  /\ d0 = d
  /\ hist = <<>>
  /\ err = "none"
  /\ pc = "idle"
  /\ lvl = 0
  /\ pend = {}
  /\ loc = NoLoc

InitEuler ==
  /\ m \in EulerModels
  /\ \E ks \in [Worlds -> {1, 2, 3}] :
       d = MakeData([w \in Worlds |->
             IF m.njnt = 2 THEN PendulaWorld(m, ks[w]) ELSE FloatWorld(m, ks[w])])
  /\ AtRest

NextEuler == Euler
SpecEuler == InitEuler /\ [][NextEuler]_vars

\* ---------------------------------------------------- claims on euler
LastCall == IF hist = <<>> THEN "none" ELSE hist[Len(hist)]
\* the last calls were names, oldest first
Ends(names) ==
  /\ Len(hist) >= Len(names)
  /\ \A k \in 1 .. Len(names) : hist[Len(hist) - Len(names) + k] = names[k]
\* no call is in progress and the last one returned normally
Returned == pc = "idle" /\ err = "none"
Dofs(mm) == 0 .. (mm.nv - 1)

\* the mass matrix a buffer qM stands for, entry (i, j) with j <= i: packed
\* along the ancestor chain of i (sparse) or row-major nv x nv (dense)
RECURSIVE ChainPos(_, _, _, _)
ChainPos(mm, i, j, k) ==
  IF i < 0 THEN -1
  ELSE IF i = j THEN k
  ELSE ChainPos(mm, mm.dof_parentid[i], j, k + 1)
MEntry(mm, qM, i, j) ==
  LET hi == IF i >= j THEN i ELSE j
      lo == IF i >= j THEN j ELSE i
  IN  IF mm.is_sparse
      THEN LET k == ChainPos(mm, hi, lo, 0)
           IN  IF k < 0 THEN Zero ELSE qM[mm.dof_Madr[hi] + k]
      ELSE qM[hi * mm.nv + lo]
RECURSIVE RowTimes(_, _, _, _, _)
RowTimes(mm, qM, i, y, j) ==
  IF j >= mm.nv THEN Zero
  ELSE RAdd(RMul(MEntry(mm, qM, i, j), y[j]), RowTimes(mm, qM, i, y, j + 1))

\* C1: with the EULERDAMP disable flag set, a call of euler returns without
\* error and leaves qvel = qvel on entry + (d.qacc on entry) * timestep for
\* every world and DOF; qM, qLD and qLDiagInv are what they were on entry (no
\* damping was added, nothing was factorized or solved)
C1_DisabledEulerIsExplicit ==
  (LastCall = "euler" /\ EulerDampDisabled(m)) =>
     /\ err = "none"
     /\ \A w \in Worlds : \A tid \in Dofs(m) :
          d.qvel[w][tid] = RAdd(d0.qvel[w][tid], RMul(d0.qacc[w][tid], m.timestep))
     /\ d.qM = d0.qM /\ d.qLD = d0.qLD /\ d.qLDiagInv = d0.qLDiagInv

C1_Witness ==
  /\ LastCall = "euler" /\ EulerDampDisabled(m)
  /\ \E tid \in Dofs(m) : m.dof_damping[tid] # Zero
  /\ \E w \in Worlds : \E tid \in Dofs(m) :
       d0.qacc[w][tid] # Zero /\ d.qvel[w][tid] # d0.qvel[w][tid]

\* C2: with the EULERDAMP disable flag not set, a call of euler returns
\* without error, sparse or dense, and the acceleration a = (qvel - qvel on
\* entry) / timestep solves (M + timestep * diag(dof_damping)) a =
\* qfrc_smooth + qfrc_constraint, M being d.qM on entry
C2_DampedEulerCompletes ==
  (LastCall = "euler" /\ ~EulerDampDisabled(m)) =>
     /\ err = "none"
     /\ \A w \in Worlds :
          LET a == [j \in Dofs(m) |->
                      RDiv(RSub(d.qvel[w][j], d0.qvel[w][j]), m.timestep)]
          IN  \A i \in Dofs(m) :
                RAdd(RowTimes(m, d0.qM[w], i, a, 0),
                     RMul(RMul(m.timestep, m.dof_damping[i]), a[i]))
                  = RAdd(d0.qfrc_smooth[w][i], d0.qfrc_constraint[w][i])

\* C3: after a euler step, the activation of every stateful actuator marked
\* limited lies in the actuator's actrange, in every world
ActInRange(mm, act) ==
  \A u \in 0 .. (mm.nu - 1) :
    (mm.actuator_actadr[u] # -1 /\ mm.actuator_actlimited[u]) =>
       /\ RLe(mm.actuator_actrange[u][1], act[mm.actuator_actadr[u]])
       /\ RLe(act[mm.actuator_actadr[u]], mm.actuator_actrange[u][2])
C3_ActivationClamped ==
  (LastCall = "euler" /\ err = "none") => \A w \in Worlds : ActInRange(m, d.act[w])

\* C8: after a euler step, the quaternion of every free joint and of every
\* ball joint in qpos has norm 1, to the precision of the arithmetic
QuatAt(mm, qpos, j) ==
  LET a == mm.jnt_qposadr[j] + (IF mm.jnt_type[j] = FREE THEN 3 ELSE 0)
  IN  <<qpos[a], qpos[a + 1], qpos[a + 2], qpos[a + 3]>>
QuatJoints(mm) == {j \in 0 .. (mm.njnt - 1) : mm.jnt_type[j] \in {FREE, BALL}}
AngVelAt(mm, qvel, j) ==
  LET a == mm.jnt_dofadr[j] + (IF mm.jnt_type[j] = FREE THEN 3 ELSE 0)
  IN  <<qvel[a], qvel[a + 1], qvel[a + 2]>>
UnitNorm(q) == RLe(RAbs(RSub(Dot(q, q), One)), Rat(8, PREC))

C8_QuaternionsUnit ==
  (LastCall = "euler" /\ err = "none") =>
     \A w \in Worlds : \A j \in QuatJoints(m) : UnitNorm(QuatAt(m, d.qpos[w], j))

C8_Witness ==
  /\ LastCall = "euler" /\ err = "none"
  /\ \E w \in Worlds : \E j, k \in QuatJoints(m) :
       /\ ~UnitNorm(QuatAt(m, d0.qpos[w], j))
       /\ AngVelAt(m, d0.qvel[w], j) = VZero
       /\ AngVelAt(m, d0.qvel[w], k) # VZero
       /\ QuatAt(m, d.qpos[w], k) # QuatAt(m, d0.qpos[w], k)

\* ---------------------------------- mass matrix: crb, factor_m, solve_m
InitSolve ==
  /\ m \in {MakeModel(TreePendula(sp, 0)) : sp \in BOOLEAN}
  /\ \E ks \in [Worlds -> {1, 2, 3}] :
       d = MakeData([w \in Worlds |-> PendulaWorld(m, ks[w])])
  /\ AtRest

\* crb comes first in the pipeline: crb, factor_m, solve_m
NextSolve ==
  \/ First /\ Crb
  \/ Item
  \/ Launch
  \/ Return
  \/ \E withInv \in BOOLEAN : FactorM(withInv)
  \/ SolveM
SpecSolve == InitSolve /\ [][NextSolve]_vars

Close(a, b) == RLe(RAbs(RSub(a, b)), Rat(1, PREC))

\* what crb, factor_m and solve_m compute for world w from the crb and cdof
\* of the current Data when the Model's representation is the other one
OtherModel == [m EXCEPT !.is_sparse = ~m.is_sparse]
OtherPath(w, wrap) ==
  LET m2 == OtherModel
      qM == qM_sparse_launch(m2, ZeroArr(QSize(m2)), d.crb[w], d.cdof[w], 0, wrap)
      f == IF m2.is_sparse THEN factor_m_sparse(m2, qM)
           ELSE <<factor_m_dense(m2, qM), d.qLDiagInv[w]>>
  IN  solve_m(m2, f[1], f[2], d.qfrc_smooth[w])

\* C4: crb, factor_m, solve_m give the same solution vector with the sparse
\* flag set and with it cleared
C4_SparseDenseAgree ==
  (Ends(<<"crb", "factor_m", "solve_m">>) /\ Returned) =>
     \A w \in Worlds : \A wrap \in BOOLEAN : \A i \in Dofs(m) :
        Close(d.qacc_smooth[w][i], OtherPath(w, wrap)[i])

\* the matrix a factorization qLD stands for, times y, row i: L' D L with L
\* unit lower triangular along the ancestor chains (sparse), L L' (dense)
LEntry(mm, qLD, k, i) ==
  IF i > k THEN Zero
  ELSE IF mm.is_sparse
  THEN IF i = k THEN One
       ELSE LET p == ChainPos(mm, k, i, 0)
            IN  IF p < 0 THEN Zero ELSE qLD[mm.dof_Madr[k] + p]
  ELSE qLD[k * mm.nv + i]
DEntry(mm, qLD, k) == IF mm.is_sparse THEN qLD[mm.dof_Madr[k]] ELSE One
RECURSIVE FactoredSum(_, _, _, _, _)
\* sum over k >= k0 of L(k,i) D(k) L(k,j) (sparse), of L(i,k) L(j,k) (dense)
FactoredSum(mm, qLD, i, j, k) ==
  IF k >= mm.nv THEN Zero
  ELSE RAdd(IF mm.is_sparse
            THEN RMul(RMul(LEntry(mm, qLD, k, i), DEntry(mm, qLD, k)), LEntry(mm, qLD, k, j))
            ELSE RMul(LEntry(mm, qLD, i, k), LEntry(mm, qLD, j, k)),
            FactoredSum(mm, qLD, i, j, k + 1))
FactoredEntry(mm, qLD, i, j) == FactoredSum(mm, qLD, i, j, 0)
RECURSIVE FactoredRow(_, _, _, _, _)
FactoredRow(mm, qLD, y, i, j) ==
  IF j >= mm.nv THEN Zero
  ELSE RAdd(RMul(FactoredEntry(mm, qLD, i, j), y[j]), FactoredRow(mm, qLD, y, i, j + 1))
FactoredTimes(mm, qLD, y, i) == FactoredRow(mm, qLD, y, i, 0)
\* a factorization factor_m completed on a positive definite matrix
Factorized(mm, qLD, qLDiagInv) ==
  /\ \A a \in DOMAIN qLD : Finite(qLD[a])
  /\ \A k \in Dofs(mm) :
       IF mm.is_sparse
       THEN qLD[mm.dof_Madr[k]][1] > 0 /\ qLDiagInv[k] = RDiv(One, qLD[mm.dof_Madr[k]])
       ELSE qLD[k * mm.nv + k][1] > 0

C6_MissingBufferRejected ==
  (LastCall = "factor_m_noinv") =>
     IF m.is_sparse
     THEN err = "AssertionError" /\ d = d0
     ELSE err = "none" /\ d.qLDiagInv = d0.qLDiagInv

C6_Witness ==
  /\ LastCall = "factor_m_noinv"
  /\ m.is_sparse
  /\ err = "AssertionError"
  /\ \E w \in Worlds : \E a \in DOMAIN d.qM[w] : d.qM[w][a] # Zero

\* ------------------------------------------------ kinematics, crb: the tree
\* Data of the fork in the middle of a simulation, state k of two: poses,
\* inertias and forces left by earlier calls, a mass matrix and its
\* factorization
ForkWorld(mm, k) ==
  LET b == BlankWorld(mm)
      pick(s) == Arr(s[k])
      Bodies == 0 .. (mm.nbody - 1)
      qM == IF mm.is_sparse
            THEN pick(<< <<R(4), R(3), One, R(3), One>>, <<R(5), R(2), One, R(2), Zero>> >>)
            ELSE pick(<< <<R(4), R(2), R(2), R(2), R(2), One, R(2), One, R(5)>>,
                         <<One, Zero, One, Zero, R(4), R(2), One, R(2), R(3)>> >>)
  IN  [b EXCEPT
         !.qpos = pick(<< <<Zero, One, R(-1)>>, <<One, Zero, R(2)>> >>),
         !.qvel = pick(<< <<One, Zero, R(-1)>>, <<Zero, R(2), One>> >>),
         !.qacc = pick(<< <<One, One, Zero>>, <<Zero, R(-1), R(2)>> >>),
         !.qfrc_smooth = pick(<< <<One, One, Zero>>, <<Zero, R(2), R(-1)>> >>),
         !.qM = qM,
         !.qLD = IF mm.is_sparse THEN factor_m_sparse(mm, qM)[1] ELSE factor_m_dense(mm, qM),
         !.qLDiagInv = IF mm.is_sparse THEN factor_m_sparse(mm, qM)[2] ELSE ZeroArr(mm.nv),
         !.xpos = [c \in Bodies |-> <<R(c), R(k), Zero>>],
         !.xquat = [c \in Bodies |-> <<Zero, One, Zero, Zero>>],
         !.xmat = [c \in Bodies |-> <<One, Zero, Zero, Zero, R(-1), Zero, Zero, Zero, R(-1)>>],
         !.xipos = [c \in Bodies |-> <<R(c), Zero, R(k)>>],
         !.xanchor = [j \in 0 .. (mm.njnt - 1) |-> <<R(j), Zero, Zero>>],
         !.xaxis = [j \in 0 .. (mm.njnt - 1) |-> IF j = k THEN XAxis ELSE YAxis],
         !.subtree_com = [c \in Bodies |-> <<R(k), R(k), R(k)>>],
         !.cinert = [c \in Bodies |->
                       <<One, R(k), One, Zero, Zero, Zero, R(c), Zero, Zero, R(1 + c)>>],
         !.crb = [c \in Bodies |-> <<R(k), One, One, Zero, Zero, Zero, Zero, Zero, Zero, One>>],
         !.cdof = [i \in 0 .. (mm.nv - 1) |-> <<Zero, One, Zero, R(k), Zero, R(i)>>],
         !.cdof_dot = [i \in 0 .. (mm.nv - 1) |-> <<Zero, Zero, One, Zero, R(k), Zero>>],
         !.cvel = [c \in Bodies |-> <<Zero, One, Zero, R(c), Zero, Zero>>]]

InitKin ==
  /\ m \in {MakeModel(TreeFork(TRUE, MJ_DSBL_EULERDAMP)),
            MakeModel(TreeFloat(TRUE, MJ_DSBL_EULERDAMP))}
  /\ \E ks \in [Worlds -> {1, 2}] :
       d = MakeData([w \in Worlds |->
             IF m.nbody = 4 /\ m.njnt = 3 /\ m.nv = 3
             THEN ForkWorld(m, ks[w]) ELSE FloatWorld(m, ks[w])])
  /\ AtRest

NextKin ==
  \/ Kinematics
  \/ Item
  \/ Launch
  \/ Return
  \/ Euler
SpecKin == InitKin /\ [][NextKin]_vars

\* position in m.body_tree of body b
TreeIndex(mm, b) == CHOOSE p \in DOMAIN mm.body_tree : mm.body_tree[p] = b
RECURSIVE RefPose(_, _, _)
\* the poses of body b and of its ancestors as a function of the Model and
\* qpos: the world body's from _root, every other from its parent's
RefPose(mm, qpos, b) ==
  LET below == IF b = 0 THEN _root([BlankWorld(mm) EXCEPT !.qpos = qpos])
               ELSE RefPose(mm, qpos, mm.body_parentid[b])
  IN  _level(mm, below, TreeIndex(mm, b), 0)
PoseIs(s, b, ref) ==
  s.xpos[b] = ref.xpos[b] /\ s.xquat[b] = ref.xquat[b] /\ s.xmat[b] = ref.xmat[b]
WorldOf(dd, w) == [f \in WorldFields |-> dd[f][w]]

\* C9: while a level of kinematics is launched, the parent of every body
\* whose work-item has not run yet already holds the pose of the current
\* call, whatever the order of the items; when kinematics returns, the pose
\* of every body of every world is the function RefPose of the Model and of
\* the current qpos
C9_KinematicsParentFirst ==
  /\ (pc = "kinematics" /\ Launches(pc, m)[lvl].kernel = "_level") =>
       \A it \in pend :
          LET b == m.body_tree[Launches(pc, m)[lvl].adr + it[2]]
              s == WorldOf(d, it[1])
          IN  IF b = 0 THEN PoseIs(s, 0, _root(s))
              ELSE PoseIs(s, m.body_parentid[b], RefPose(m, s.qpos, m.body_parentid[b]))
  /\ (LastCall = "kinematics" /\ Returned) =>
       \A w \in Worlds : \A b \in 0 .. (m.nbody - 1) :
          PoseIs(WorldOf(d, w), b, RefPose(m, d.qpos[w], b))

C9_Witness ==
  /\ Ends(<<"kinematics", "euler", "kinematics">>) /\ Returned
  /\ \E w \in Worlds : \E b \in 0 .. (m.nbody - 1) :
       /\ m.body_parentid[b] # 0 /\ b # 0
       /\ d.xquat[w][b] # d0.xquat[w][b]
       /\ d.xpos[w][b] # d0.xpos[w][b]

InitCrb ==
  /\ m \in {MakeModel(TreeFork(sp, 0)) : sp \in BOOLEAN}
  /\ \E ks \in [Worlds -> {1, 2}] : d = MakeData([w \in Worlds |-> ForkWorld(m, ks[w])])
  /\ AtRest

NextCrb ==
  \/ Crb
  \/ Item
  \/ Launch
  \/ Return
SpecCrb == InitCrb /\ [][NextCrb]_vars

RECURSIVE InSubtree(_, _, _)
\* body c lies in the subtree rooted at body b
InSubtree(mm, c, b) ==
  IF c = b THEN TRUE ELSE IF c = 0 THEN FALSE ELSE InSubtree(mm, mm.body_parentid[c], b)
RECURSIVE SubtreeInertia(_, _, _, _)
\* sum of inert[c] over the bodies c >= c0 of the subtree rooted at b
SubtreeInertia(mm, inert, b, c) ==
  IF c >= mm.nbody THEN ZeroInert
  ELSE VAdd(IF InSubtree(mm, c, b) THEN inert[c] ELSE ZeroInert,
            SubtreeInertia(mm, inert, b, c + 1))

\* C10 as stated: after crb, d.crb[b] is the sum of d.cinert over the subtree
\* of b, for every body b, the world body included
C10_EveryBodyHoldsSubtree ==
  (LastCall = "crb" /\ Returned) =>
     \A w \in Worlds : \A b \in 0 .. (m.nbody - 1) :
        d.crb[w][b] = SubtreeInertia(m, d.cinert[w], b, 0)

\* C10: after crb, for every body b other than the world body, d.crb[b] is the
\* sum of d.cinert over the subtree of b, each body once, whatever the order
\* of the additions of siblings; d.crb[0] is d.cinert[0] alone
C10_SubtreeInertiaBelowWorld ==
  (LastCall = "crb" /\ Returned) =>
     \A w \in Worlds :
        /\ \A b \in 1 .. (m.nbody - 1) :
             d.crb[w][b] = SubtreeInertia(m, d.cinert[w], b, 0)
        /\ d.crb[w][0] = d.cinert[w][0]

C10_Witness ==
  /\ LastCall = "crb" /\ Returned
  /\ \E w \in Worlds : \E b, c, e \in 1 .. (m.nbody - 1) :
       /\ c # e /\ m.body_parentid[c] = b /\ m.body_parentid[e] = b
       /\ d.crb[w][b] = VAdd(VAdd(d.cinert[w][b], d.cinert[w][c]), d.cinert[w][e])
       /\ d.crb[w][b] # d0.crb[w][b]
       /\ d.crb[w][0] # SubtreeInertia(m, d.cinert[w], 0, 0)

\* ----------------------------------------------------- worlds of a batch
\* one call of one stage on a batch whose worlds differ
InitWorlds ==
  /\ m \in {MakeModel(TreeFork(sp, fl)) : sp \in BOOLEAN, fl \in {0, MJ_DSBL_EULERDAMP}}
  /\ \E ks \in [Worlds -> {1, 2}] : d = MakeData([w \in Worlds |-> ForkWorld(m, ks[w])])
  /\ AtRest

NextWorlds ==
  \/ First /\ Kinematics
  \/ First /\ ComPos
  \/ First /\ Crb
  \/ First /\ Rne
  \/ First /\ FactorM(TRUE)
  \/ First /\ SolveM
  \/ First /\ Euler
  \/ Item
  \/ Launch
  \/ Return
SpecWorlds == InitWorlds /\ [][NextWorlds]_vars

\* the batch every world of which holds the slice s
Alone(s) == MakeData([v \in Worlds |-> s])

\* the first of the items: by world, then by index
FirstItem(items) ==
  CHOOSE x \in items : \A y \in items : x[1] < y[1] \/ (x[1] = y[1] /\ x[2] <= y[2])

RECURSIVE SeqItems(_, _, _, _, _)
\* the items of the launch la run one after the other on r.d and r.loc
SeqItems(mm, la, items, r, wrap) ==
  IF items = {} THEN r
  ELSE SeqItems(mm, la, items \ {FirstItem(items)},
                RunItem(mm, la, FirstItem(items), r.d, r.loc, wrap), wrap)

RECURSIVE SeqLaunches(_, _, _, _, _)
\* the launches i, i + 1, ... of the stage run one after the other
SeqLaunches(mm, stage, i, r, wrap) ==
  IF i > Len(Launches(stage, mm)) THEN r.d
  ELSE SeqLaunches(mm, stage, i + 1,
                   SeqItems(mm, Launches(stage, mm)[i], Launches(stage, mm)[i].items, r, wrap),
                   wrap)

\* the Data a call of the stage leaves when it runs on the batch dd with its
\* work-items one after the other
CallResult(stage, mm, dd, wrap, junk) ==
  CASE stage \in Stages ->
         SeqLaunches(mm, stage, 1, [d |-> OnEntry(stage, dd), loc |-> InitLoc(stage, mm)], wrap)
    [] stage = "factor_m" -> factor_m(mm, dd, TRUE).d
    [] stage = "solve_m" -> solve_m_smooth(mm, dd)
    [] stage = "euler" -> euler(mm, dd, junk).d

InitCom ==
  /\ m = MakeModel(TreeFork(TRUE, MJ_DSBL_EULERDAMP))
  /\ \E ks \in [Worlds -> {1, 2}] : d = MakeData([w \in Worlds |-> ForkWorld(m, ks[w])])
  /\ AtRest

NextCom ==
  \/ Kinematics
  \/ LastCall = "kinematics" /\ ComPos
  \/ Euler
  \/ Item
  \/ Launch
  \/ Return
SpecCom == InitCom /\ [][NextCom]_vars

RECURSIVE SubtreeMass(_, _, _)
\* sum of body_mass[c] over the bodies c >= c0 of the subtree rooted at b
SubtreeMass(mm, b, c) ==
  IF c >= mm.nbody THEN Zero
  ELSE RAdd(IF InSubtree(mm, c, b) THEN mm.body_mass[c] ELSE Zero,
            SubtreeMass(mm, b, c + 1))

\* the launches of mass_subtree_acc of the com_pos in progress are complete
MassAccumulated ==
  /\ pc = "com_pos"
  /\ Launches(pc, m)[lvl].kernel # "mass_subtree_acc"

\* C11: once the bottom-up mass accumulation of com_pos is complete, the
\* accumulator of every body, the world body included, is the sum of
\* body_mass over its subtree
C11_AccumulatorIsSubtreeMass ==
  MassAccumulated =>
     \A b \in 0 .. (m.nbody - 1) : loc.mass_subtree[b] = SubtreeMass(m, b, 0)

\* ------------------------------------------------- kinematics of a ball joint
\* The floating base, the worlds of the batch equal except for the quaternion
\* of the ball joint of body 2 (qpos[7..10]): unit quaternions of three
\* different rotations
BallQuats == {QIdentity, <<Zero, One, Zero, Zero>>, <<Zero, Zero, One, Zero>>}
BallWorld(mm, q) ==
  LET b == FloatWorld(mm, 1)
      adr == mm.jnt_qposadr[1]
  IN  [b EXCEPT !.qpos = [i \in DOMAIN b.qpos |->
                            IF i \in adr .. (adr + 3) THEN q[i - adr + 1] ELSE b.qpos[i]]]

InitBall ==
  /\ m = MakeModel(TreeFloat(TRUE, MJ_DSBL_EULERDAMP))
  /\ \E qs \in [Worlds -> BallQuats] : d = MakeData([w \in Worlds |-> BallWorld(m, qs[w])])
  /\ AtRest

NextBall ==
  \/ Kinematics
  \/ Item
  \/ Launch
  \/ Return
SpecBall == InitBall /\ [][NextBall]_vars

\* the quaternion of joint j in qpos
JointQuat(qpos, adr) == <<qpos[adr], qpos[adr + 1], qpos[adr + 2], qpos[adr + 3]>>
\* worlds w1 and w2 hold the same qpos except for the quaternion of ball
\* joint j, and there they hold different rotations
DifferAtBallOnly(j, w1, w2) ==
  LET adr == m.jnt_qposadr[j]
      q1 == JointQuat(d.qpos[w1], adr)
      q2 == JointQuat(d.qpos[w2], adr)
  IN  /\ m.jnt_type[j] = BALL
      /\ \A i \in DOMAIN d.qpos[w1] : i \notin adr .. (adr + 3) => d.qpos[w1][i] = d.qpos[w2][i]
      /\ q1 # q2
      /\ q1 # <<RNeg(q2[1]), RNeg(q2[2]), RNeg(q2[3]), RNeg(q2[4])>>

\* C12: when kinematics returns, two worlds that are equal except for the
\* qpos quaternion of a ball joint hold different orientations (xquat and
\* xmat) for the body of that joint
C12_BallQuaternionApplied ==
  (LastCall = "kinematics" /\ Returned) =>
     \A j \in 0 .. (m.njnt - 1) : \A w1, w2 \in Worlds :
        DifferAtBallOnly(j, w1, w2) =>
           /\ d.xquat[w1][m.jnt_bodyid[j]] # d.xquat[w2][m.jnt_bodyid[j]]
           /\ d.xmat[w1][m.jnt_bodyid[j]] # d.xmat[w2][m.jnt_bodyid[j]]

\* ------------------------------------------------- euler's damping fold
\* lines 186-189: the second launch dimension of the damping kernel
DampingDim(mm) == IF mm.is_sparse THEN mm.nM ELSE mm.nv
\* the reads of work-item tid of the damping kernel stay inside m.dof_Madr
\* and m.dof_damping, which hold one entry per DOF
DampingInBounds(mm, tid) ==
  /\ tid < mm.nv
  /\ mm.is_sparse => mm.dof_Madr[tid] < mm.nv

\* C13: after euler's damping fold (EULERDAMP not disabled), in every world
\* the entry M(i,i) of the stored mass matrix is the one on entry plus
\* timestep * dof_damping[i], every entry off the diagonal is the one on
\* entry, and no work-item of the launch reads outside the arrays
C13_DampingOnDiagonalOnly ==
  (LastCall = "euler" /\ ~EulerDampDisabled(m)) =>
     /\ \A w \in Worlds : \A i, j \in Dofs(m) :
          MEntry(m, d.qM[w], i, j) =
            IF i = j
            THEN RAdd(MEntry(m, d0.qM[w], i, i), RMul(m.timestep, m.dof_damping[i]))
            ELSE MEntry(m, d0.qM[w], i, j)
     /\ \A tid \in 0 .. (DampingDim(m) - 1) : DampingInBounds(m, tid)

\* ------------------------------------------------- the order inside a step
\* C14: a euler step that returns has advanced the velocity with the
\* acceleration of the step (left in d.qacc_eulerdamp), then the positions
\* with the velocity already advanced: for every hinge and slide joint, qpos
\* = qpos on entry + timestep * qvel on return; and d.time is the time on
\* entry plus one timestep
C14_PositionsUseNewVelocity ==
  (LastCall = "euler" /\ err = "none") =>
     /\ \A w \in Worlds : \A tid \in Dofs(m) :
          d.qvel[w][tid] = RAdd(d0.qvel[w][tid], RMul(m.timestep, d.qacc_eulerdamp[w][tid]))
     /\ \A w \in Worlds : \A j \in 0 .. (m.njnt - 1) :
          m.jnt_type[j] \in {HINGE, SLIDE} =>
             d.qpos[w][m.jnt_qposadr[j]] =
               RAdd(d0.qpos[w][m.jnt_qposadr[j]],
                    RMul(m.timestep, d.qvel[w][m.jnt_dofadr[j]]))
     /\ d.time = RAdd(d0.time, m.timestep)

\* a step with a nonzero acceleration on a hinge or slide joint, so that the
\* velocity on entry and the velocity on return give different positions
C14_Witness ==
  /\ LastCall = "euler" /\ err = "none"
  /\ \E w \in Worlds : \E j \in 0 .. (m.njnt - 1) :
       /\ m.jnt_type[j] \in {HINGE, SLIDE}
       /\ d.qvel[w][m.jnt_dofadr[j]] # d0.qvel[w][m.jnt_dofadr[j]]
       /\ d.qpos[w][m.jnt_qposadr[j]] #
            RAdd(d0.qpos[w][m.jnt_qposadr[j]], RMul(m.timestep, d0.qvel[w][m.jnt_dofadr[j]]))

\* ------------------------------------------------- crb, then euler with damping
\* the damped pendulum stepped by crb and euler
InitDamp ==
  /\ m \in {MakeModel(TreePendula(sp, 0)) : sp \in BOOLEAN}
  /\ \E ks \in [Worlds -> {1, 2}] : d = MakeData([w \in Worlds |-> PendulaWorld(m, ks[w])])
  /\ AtRest

NextDamp ==
  \/ Crb
  \/ Item
  \/ Launch
  \/ Return
  \/ Euler
SpecDamp == InitDamp /\ [][NextDamp]_vars

\* C15: when euler (EULERDAMP not disabled) follows crb, the matrix that
\* d.qLD factorizes after the call has, in every world, the diagonal of the
\* matrix crb left in d.qM plus timestep * dof_damping, added once
C15_DampingAddedOnce ==
  (Ends(<<"crb", "euler">>) /\ ~EulerDampDisabled(m)) =>
     \A w \in Worlds : \A i \in Dofs(m) :
        Close(FactoredEntry(m, d.qLD[w], i, i),
              RAdd(MEntry(m, d0.qM[w], i, i), RMul(m.timestep, m.dof_damping[i])))

\* ------------------------------------------------- the inertial frames
\* body b has no child
IsLeaf(mm, b) == \A c \in 0 .. (mm.nbody - 1) : c # b => mm.body_parentid[c] # b

\* C16: kinematics writes d.xipos and d.ximat of the world body only (zero
\* and identity); for every other body they are, during and after a call of
\* kinematics, of com_pos or of euler, what they were when the call started,
\* so what com_pos reads does not follow qpos: the subtree_com it leaves for
\* a leaf body of nonzero mass is the xipos the Data held on entry
C16_InertialFrameOfWorldBodyOnly ==
  /\ (LastCall \in {"kinematics", "com_pos", "euler"}) =>
        \A w \in Worlds : \A b \in 1 .. (m.nbody - 1) :
           d.xipos[w][b] = d0.xipos[w][b] /\ d.ximat[w][b] = d0.ximat[w][b]
  /\ (LastCall = "kinematics" /\ Returned) =>
        \A w \in Worlds : d.xipos[w][0] = VZero /\ d.ximat[w][0] = Identity3
  /\ (LastCall = "com_pos" /\ Returned) =>
        \A w \in Worlds : \A b \in 1 .. (m.nbody - 1) :
           (IsLeaf(m, b) /\ m.body_mass[b] # Zero) =>
              d.subtree_com[w][b] = d0.xipos[w][b]

\* euler has moved qpos, kinematics has moved the frame of a leaf body, and
\* com_pos has left for it the xipos the Data was made with
C16_Witness ==
  /\ Ends(<<"euler", "kinematics", "com_pos">>) /\ Returned
  /\ \E w \in Worlds : \E k \in {1, 2} : \E b \in 1 .. (m.nbody - 1) :
       /\ IsLeaf(m, b)
       /\ d.subtree_com[w][b] = ForkWorld(m, k).xipos[b]
       /\ d.subtree_com[w][b] # VZero
       /\ d.qpos[w] # ForkWorld(m, k).qpos
       /\ d.xpos[w][b] # ForkWorld(m, k).xpos[b]
       /\ d.xipos[w][b] # d.xpos[w][b]

====
